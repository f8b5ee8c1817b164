----------------------------- MODULE BlockProofs -----------------------------
(***************************************************************************)
(* What is proved of module Block: that decrypt undoes encrypt for eight   *)
(* of the ciphers, under every key of their sizes, and that a client of    *)
(* one of them sees one permutation of the blocks under each key.          *)
(*                                                                         *)
(* A cipher's proof has two parts: one turn of its loop is undone by a     *)
(* turn of the loop of the other direction, and two loops whose turns undo *)
(* one another do so as a whole (module Buffers).  Nothing is used of the  *)
(* tables but the width of their entries.                                  *)
(***************************************************************************)
EXTENDS Block, Buffers

----------------------------------------------------------------------------
(* The words of the modules of the ciphers are those of this one. *)

LEMMA Words64 ==
  /\ \A w : C64!Word(w) = Word(w) /\ C64!WordPairs(w) = WordPairs(w)
  /\ \A w, n : C64!Words(w, n) = Words(w, n)
  /\ \A x, y : C64!Xor(x, y) = Xor(x, y)
  /\ \A x, y, z : C64!Xor3(x, y, z) = Xor3(x, y, z)
  /\ \A w, x, y : C64!Plus(w, x, y) = Plus(w, x, y) /\ C64!Minus(w, x, y) = Minus(w, x, y)
  /\ \A w, x, n : C64!Rotl(w, x, n) = Rotl(w, x, n) /\ C64!Rotr(w, x, n) = Rotr(w, x, n)
  /\ \A n, b : C64!WordsBE(n, b) = WordsBE(n, b) /\ C64!BytesBE(n, b) = BytesBE(n, b)
  /\ \A n, b : C64!WordsLE(n, b) = WordsLE(n, b) /\ C64!BytesLE(n, b) = BytesLE(n, b)
  /\ \A n, x, turn : C64!Iterated(n, x, turn) = Iterated(n, x, turn)
BY DEF C64!Word, C64!WordPairs, C64!Words, C64!Xor, C64!Xor3, C64!Plus, C64!Minus, C64!Rotl, C64!Rotr,
       C64!WordsBE, C64!BytesBE, C64!WordsLE, C64!BytesLE, C64!Iterated, C64!PackBE, C64!PackLE,
       C64!GetByte, C64!Field, C64!Shl, Shl, Word, WordPairs, Words, Xor, Xor3, Plus, Minus, Rotl, Rotr,
       WordsBE, BytesBE, WordsLE, BytesLE, Iterated, PackBE, PackLE, GetByte, Field

----------------------------------------------------------------------------
(* DES and triple DES. *)

\* The fields that index the tables, whatever the word.
LEMMA Indices ==
  /\ \A x, lo : lo \in Int => C64!Field(x, lo, 6) \in Word(10)
  /\ \A x, y, z, t : x \in Word(32) /\ y \in Word(32) /\ z \in Word(32) /\ t \in Word(32) =>
       C64!Xor4(x, y, z, t) \in Word(32)
<1>1. ASSUME NEW x, NEW lo \in Int PROVE C64!Field(x, lo, 6) \in Word(10)
  <2>1. \A i \in x \cap (lo .. lo + 6 - 1) : i - lo \in 0 .. 10 - 1 OBVIOUS
  <2> QED BY <2>1 DEF C64!Field, Word
<1> QED BY <1>1 DEF C64!Xor4, C64!Xor, Word

LEMMA DesF == \A j, k, r : C64!F(j, k, r) \in Word(32)
<1>1. ASSUME NEW a, NEW n \in 0 .. 3, NEW i \in 0 .. 7 PROVE C64!Spbox(i, C64!Field(a, 8*n, 6)) \in Word(32)
  <2>1. C64!Field(a, 8*n, 6) \in Word(10) BY Indices
  <2>2. 100 + i \in WordTables BY DEF WordTables
  <2> QED BY <2>1, <2>2, TableAssumption DEF C64!Spbox
<1>2. ASSUME NEW a, NEW c \in {6, 7}
      PROVE  C64!XorOf([n \in 0 .. 3 |-> C64!Spbox(c - 2*n, C64!Field(a, 8*n, 6))]) \in Word(32)
  <2> DEFINE g == [n \in 0 .. 3 |-> C64!Spbox(c - 2*n, C64!Field(a, 8*n, 6))]
  <2>1. \A n \in 0 .. 3 : c - 2*n \in 0 .. 7 OBVIOUS
  <2>2. g \in [0 .. 3 -> Word(32)] BY <1>1, <2>1
  <2> HIDE DEF g
  <2>3. g[0] \in Word(32) /\ g[1] \in Word(32) /\ g[2] \in Word(32) /\ g[3] \in Word(32) BY <2>2
  <2>4. C64!XorOf(g) \in Word(32) BY <2>3, Indices DEF C64!XorOf
  <2> QED BY <2>4 DEF g
<1>3. \A a, b : C64!Lookup(a, b) \in Word(32) BY <1>2 DEF C64!Lookup, C64!Xor, Word
<1> QED BY <1>3 DEF C64!F

\* The schedule and its reverse, each of which is the reverse of the other.
Reverses(k, d) ==
    \A i \in 1 .. 8 : /\ d[33 - 4*i] = k[4*i - 1] /\ d[34 - 4*i] = k[4*i]
                      /\ d[35 - 4*i] = k[4*i - 3] /\ d[36 - 4*i] = k[4*i - 2]
LEMMA ReversesBack == \A k, d : Reverses(k, d) => Reverses(d, k)
<1> SUFFICES ASSUME NEW k, NEW d, Reverses(k, d), NEW i \in 1 .. 8
             PROVE  /\ k[33 - 4*i] = d[4*i - 1] /\ k[34 - 4*i] = d[4*i]
                    /\ k[35 - 4*i] = d[4*i - 3] /\ k[36 - 4*i] = d[4*i - 2]
  BY DEF Reverses
<1>1. 9 - i \in 1 .. 8 /\ 4*(9 - i) = 36 - 4*i OBVIOUS
<1>2. PICK e \in 1 .. 8 : e = 9 - i /\ 4*e = 36 - 4*i BY <1>1
<1>3. PICK m \in Int : m = 4*i OBVIOUS
<1>4. /\ 33 - 4*e = m - 3 /\ 34 - 4*e = m - 2 /\ 35 - 4*e = m - 1 /\ 36 - 4*e = m
      /\ 4*e - 1 = 35 - m /\ 4*e = 36 - m /\ 4*e - 3 = 33 - m /\ 4*e - 2 = 34 - m
  BY <1>2, <1>3
<1>5. d[33 - 4*e] = k[4*e - 1] /\ d[34 - 4*e] = k[4*e] /\ d[35 - 4*e] = k[4*e - 3] /\ d[36 - 4*e] = k[4*e - 2]
  BY DEF Reverses
<1> QED BY <1>3, <1>4, <1>5

LEMMA DesSchedule == \A key : Reverses(C64!DesSetKey(key).k, C64!DesSetKey(key).kd)
<1> TAKE key
<1> DEFINE g == [n \in 1 .. 32 |-> C64!SubkeyWord(key, (n+1) \div 2, (n-1) % 2)]
           h == [n \in 1 .. 32 |-> IF n % 2 = 1 THEN g[32 - n] ELSE g[34 - n]]
<1>1. PICK k, d : k = g /\ d = h BY Zenon
<1>2. C64!DesSetKey(key).k = k /\ C64!DesSetKey(key).kd = d BY <1>1 DEF C64!DesSetKey
<1>3. d = [n \in 1 .. 32 |-> IF n % 2 = 1 THEN k[32 - n] ELSE k[34 - n]] BY <1>1
<1> HIDE DEF g, h
<1>4. ASSUME NEW i \in 1 .. 8
      PROVE  /\ d[33 - 4*i] = k[4*i - 1] /\ d[34 - 4*i] = k[4*i]
             /\ d[35 - 4*i] = k[4*i - 3] /\ d[36 - 4*i] = k[4*i - 2]
  <2>1. /\ 33 - 4*i \in 1 .. 32 /\ (33 - 4*i) % 2 = 1 /\ 32 - (33 - 4*i) = 4*i - 1
        /\ 34 - 4*i \in 1 .. 32 /\ (34 - 4*i) % 2 # 1 /\ 34 - (34 - 4*i) = 4*i
        /\ 35 - 4*i \in 1 .. 32 /\ (35 - 4*i) % 2 = 1 /\ 32 - (35 - 4*i) = 4*i - 3
        /\ 36 - 4*i \in 1 .. 32 /\ (36 - 4*i) % 2 # 1 /\ 34 - (36 - 4*i) = 4*i - 2
    OBVIOUS
  <2> QED BY <1>3, <2>1
<1> QED BY <1>2, <1>4 DEF Reverses

\* One turn, and the turn that undoes it on the halves exchanged.
LEMMA DesTurns ==
  ASSUME NEW k, NEW d, Reverses(k, d), NEW i \in 1 .. 8, NEW x \in WordPairs(32)
  PROVE  /\ C64!DesTurn(k, i, x) \in WordPairs(32)
         /\ C64!DesTurn(d, 9 - i, C64!Swap(C64!DesTurn(k, i, x))) = C64!Swap(x)
<1>1. PICK a \in Word(32), b \in Word(32) : x = <<a, b>> BY PairsAre
<1>2. PICK p \in Word(32) : p = C64!F(k[4*i-3], k[4*i-2], b) BY DesF
<1>3. PICK c \in Word(32) : c = Xor(a, p) BY Zenon DEF Xor, Word
<1>4. PICK q \in Word(32) : q = C64!F(k[4*i-1], k[4*i], c) BY DesF
<1>5. PICK e \in Word(32) : e = Xor(b, q) BY Zenon DEF Xor, Word
<1>6. C64!DesTurn(k, i, x) = <<c, e>>
  <2>1. C64!DesLeft(k, i, x) = <<c, b>> BY <1>1, <1>2, <1>3, Words64 DEF C64!DesLeft
  <2>2. C64!DesRight(k, i, <<c, b>>) = <<c, e>> BY <1>4, <1>5, Words64 DEF C64!DesRight
  <2> QED BY <2>1, <2>2 DEF C64!DesTurn
<1>7. C64!Swap(<<c, e>>) = <<e, c>> /\ C64!Swap(x) = <<b, a>> BY <1>1 DEF C64!Swap
<1>8. C64!DesTurn(d, 9 - i, <<e, c>>) = <<b, a>>
  <2>1. d[33 - 4*i] = k[4*i - 1] /\ d[34 - 4*i] = k[4*i] /\ d[35 - 4*i] = k[4*i - 3] /\ d[36 - 4*i] = k[4*i - 2]
    BY DEF Reverses
  <2>2. /\ 4*(9 - i) - 3 = 33 - 4*i /\ 4*(9 - i) - 2 = 34 - 4*i
        /\ 4*(9 - i) - 1 = 35 - 4*i /\ 4*(9 - i) = 36 - 4*i
    OBVIOUS
  <2>3. Xor(e, q) = b /\ Xor(c, p) = a BY <1>3, <1>5, XorTwice
  <2>4. C64!DesLeft(d, 9 - i, <<e, c>>) = <<b, c>>
    BY <1>4, <2>1, <2>2, <2>3, Words64 DEF C64!DesLeft
  <2>5. C64!DesRight(d, 9 - i, <<b, c>>) = <<b, a>>
    BY <1>2, <2>1, <2>2, <2>3, Words64 DEF C64!DesRight
  <2> QED BY <2>4, <2>5 DEF C64!DesTurn
<1> QED BY <1>6, <1>7, <1>8, PairsAre

LEMMA DesCore ==
  ASSUME NEW k, NEW d, Reverses(k, d), NEW x \in WordPairs(32)
  PROVE  /\ C64!ProcessBlock(k, x) \in WordPairs(32)
         /\ C64!Swap(C64!ProcessBlock(k, x)) \in WordPairs(32)
         /\ C64!ProcessBlock(d, C64!Swap(C64!ProcessBlock(k, x))) = C64!Swap(x)
<1> DEFINE S == WordPairs(32)
<1>1. PICK turn, back, rel :
        /\ turn = [t \in S \X (1 .. 8) |-> C64!DesTurn(k, t[2], t[1])]
        /\ back = [t \in S \X (1 .. 8) |-> C64!DesTurn(d, t[2], t[1])]
        /\ rel = [t \in S \X (0 .. 8) |-> C64!Swap(t[1])]
  BY Zenon
<1>2. ASSUME NEW s \in S, NEW i \in 1 .. 8
      PROVE  turn[<<s, i>>] = C64!DesTurn(k, i, s) /\ back[<<s, i>>] = C64!DesTurn(d, i, s)
  <2>1. <<s, i>> \in S \X (1 .. 8) OBVIOUS
  <2> QED BY <1>1, <2>1
<1>3. ASSUME NEW s \in S, NEW i \in 0 .. 8 PROVE rel[<<s, i>>] = C64!Swap(s) /\ C64!Swap(s) \in S
  <2>1. <<s, i>> \in S \X (0 .. 8) OBVIOUS
  <2> QED BY <1>1, <2>1, PairsAre DEF C64!Swap
<1>4. ASSUME NEW s \in S
      PROVE  C64!ProcessBlock(k, s) = Iterated(8, s, turn) /\ C64!ProcessBlock(d, s) = Iterated(8, s, back)
  BY <1>1, Words64 DEF C64!ProcessBlock
<1>5. StepsIn(8, S, turn) /\ StepsIn(8, S, back)
  <2>1. ASSUME NEW s \in S, NEW i \in 1 .. 8 PROVE turn[<<s, i>>] \in S /\ back[<<s, i>>] \in S
    <3>1. Reverses(d, k) BY ReversesBack
    <3>2. C64!DesTurn(k, i, s) \in S BY DesTurns
    <3>3. C64!DesTurn(d, i, s) \in S BY <3>1, DesTurns
    <3> QED BY Zenon, <1>2, <3>2, <3>3
  <2> QED BY Zenon, <2>1 DEF StepsIn
<1>6. Undoes(8, S, rel, turn, back)
  <2>1. ASSUME NEW i \in 1 .. 8, NEW s \in S
        PROVE  back[<<rel[<<turn[<<s, i>>], i>>], 8 + 1 - i>>] = rel[<<s, i - 1>>]
    <3>1. PICK y \in S : y = C64!DesTurn(k, i, s) /\ C64!DesTurn(d, 9 - i, C64!Swap(y)) = C64!Swap(s)
      BY DesTurns
    <3>2. turn[<<s, i>>] = y BY Zenon, <1>2, <3>1
    <3>3. 8 + 1 - i = 9 - i /\ 9 - i \in 1 .. 8 /\ i \in 0 .. 8 /\ i - 1 \in 0 .. 8 OBVIOUS
    <3>4. PICK z \in S : z = C64!Swap(y) /\ rel[<<y, i>>] = z BY Zenon, <1>3, <3>3
    <3>5. rel[<<s, i - 1>>] = C64!Swap(s) BY Zenon, <1>3, <3>3
    <3>6. back[<<z, 9 - i>>] = C64!DesTurn(d, 9 - i, z) BY Zenon, <1>2, <3>3
    <3> QED BY <3>1, <3>2, <3>3, <3>4, <3>5, <3>6
  <2>2. \A i \in 0 .. 8 : \A s \in S : rel[<<s, i>>] \in S BY Zenon, <1>3
  <2> QED BY <2>1, <2>2 DEF Undoes
<1>7. PICK y \in S : y = Iterated(8, x, turn) /\ Iterated(8, rel[<<y, 8>>], back) = rel[<<x, 0>>]
  BY <1>5, <1>6, Unwound
<1>8. rel[<<y, 8>>] = C64!Swap(y) /\ C64!Swap(y) \in S /\ rel[<<x, 0>>] = C64!Swap(x)
  <2>1. 8 \in 0 .. 8 /\ 0 \in 0 .. 8 OBVIOUS
  <2> QED BY Zenon, <1>3, <2>1
<1> QED BY <1>4, <1>7, <1>8

\* A step of the permutations exchanges bits of a half and the other half rotated;
\* exchanging them again gives the two back, in the other order.
LEMMA Turned ==
  ASSUME NEW x \in WordPairs(32), NEW n \in Int, NEW m
  PROVE  /\ C64!TurnR(x, n, m) \in WordPairs(32) /\ C64!TurnL(x, n, m) \in WordPairs(32)
         /\ SwapBits(C64!TurnR(x, n, m)[2], C64!TurnR(x, n, m)[1], m) = <<Rotl(32, x[2], n), x[1]>>
         /\ SwapBits(C64!TurnL(x, n, m)[2], C64!TurnL(x, n, m)[1], m) = <<x[2], Rotl(32, x[1], n)>>
<1>1. PICK a \in Word(32), b \in Word(32) : x = <<a, b>> BY PairsAre
<1>2. PICK ra \in Word(32), rb \in Word(32) : ra = Rotl(32, a, n) /\ rb = Rotl(32, b, n) BY Rotations
<1>3. \A c \in Word(32), e \in Word(32) : SwapBits(c, e, m) \in WordPairs(32)
  <2> TAKE c \in Word(32), e \in Word(32)
  <2>1. (c \ m) \union (e \cap m) \in Word(32) /\ (e \ m) \union (c \cap m) \in Word(32) BY Zenon DEF Word
  <2> QED BY Zenon, <2>1, PairsAre DEF SwapBits
<1>4. C64!TurnR(x, n, m) = SwapBits(a, rb, m) /\ C64!TurnL(x, n, m) = SwapBits(ra, b, m)
  BY <1>1, <1>2, Words64 DEF C64!TurnR, C64!TurnL, C64!SwapBits, SwapBits
<1> QED BY <1>1, <1>2, <1>3, <1>4, SwapTwice

\* The next step, on the halves exchanged and with the rotations the other way.
ReturnR(n, m, j, k) ==
    \A x \in WordPairs(32) :
        C64!TurnL(<<Rotl(32, C64!TurnR(x, n, m)[2], j), C64!TurnR(x, n, m)[1]>>, k, m)
            = <<Rotl(32, x[2], n), x[1]>>
ReturnL(n, m, j, k) ==
    \A x \in WordPairs(32) :
        C64!TurnR(<<C64!TurnL(x, n, m)[2], Rotl(32, C64!TurnL(x, n, m)[1], j)>>, k, m)
            = <<x[2], Rotl(32, x[1], n)>>
LEMMA Returned ==
  ASSUME NEW n \in Int, NEW m, NEW j, NEW k, Cancels(j, k)
  PROVE  ReturnR(n, m, j, k) /\ ReturnL(n, m, j, k)
<1>1. ASSUME NEW x \in WordPairs(32)
      PROVE  C64!TurnL(<<Rotl(32, C64!TurnR(x, n, m)[2], j), C64!TurnR(x, n, m)[1]>>, k, m)
                 = <<Rotl(32, x[2], n), x[1]>>
  <2>1. PICK u \in WordPairs(32) : u = C64!TurnR(x, n, m) BY Turned
  <2>2. u[1] \in Word(32) /\ u[2] \in Word(32) BY PairsAre
  <2>3. Rotl(32, Rotl(32, u[2], j), k) = u[2] BY <2>2 DEF Cancels
  <2>4. C64!TurnL(<<Rotl(32, u[2], j), u[1]>>, k, m) = SwapBits(u[2], u[1], m)
    BY <2>3, Words64 DEF C64!TurnL, C64!SwapBits, SwapBits
  <2> QED BY <2>1, <2>4, Turned
<1>2. ASSUME NEW x \in WordPairs(32)
      PROVE  C64!TurnR(<<C64!TurnL(x, n, m)[2], Rotl(32, C64!TurnL(x, n, m)[1], j)>>, k, m)
                 = <<x[2], Rotl(32, x[1], n)>>
  <2>1. PICK u \in WordPairs(32) : u = C64!TurnL(x, n, m) BY Turned
  <2>2. u[1] \in Word(32) /\ u[2] \in Word(32) BY PairsAre
  <2>3. Rotl(32, Rotl(32, u[1], j), k) = u[1] BY <2>2 DEF Cancels
  <2>4. C64!TurnR(<<u[2], Rotl(32, u[1], j)>>, k, m) = SwapBits(u[2], u[1], m)
    BY <2>3, Words64 DEF C64!TurnR, C64!SwapBits, SwapBits
  <2> QED BY <2>1, <2>4, Turned
<1> QED BY <1>1, <1>2 DEF ReturnR, ReturnL

\* The amounts of the rotations.
LEMMA Amounts ==
  /\ 4 \in Int /\ 6 \in Int /\ 9 \in Int /\ 18 \in Int /\ 20 \in Int /\ 1 \in Int
  /\ -4 \in Int /\ -6 \in Int /\ -9 \in Int /\ -18 \in Int /\ -20 \in Int /\ -1 \in Int
OBVIOUS
LEMMA Cancelled ==
  /\ Cancels(4, -4) /\ Cancels(6, -6) /\ Cancels(9, -9) /\ Cancels(18, -18) /\ Cancels(20, -20)
  /\ Cancels(1, -1) /\ Cancels(-4, 4) /\ Cancels(-6, 6) /\ Cancels(-9, 9) /\ Cancels(-18, 18)
  /\ Cancels(-20, 20) /\ Cancels(-1, 1)
<1>1. Cancels(4, -4)
  <2>1. 4 + (-4) = 0 OBVIOUS
  <2> QED BY <2>1, RotlAndBack, Amounts, Zenon
<1>2. Cancels(6, -6)
  <2>1. 6 + (-6) = 0 OBVIOUS
  <2> QED BY <2>1, RotlAndBack, Amounts, Zenon
<1>3. Cancels(9, -9)
  <2>1. 9 + (-9) = 0 OBVIOUS
  <2> QED BY <2>1, RotlAndBack, Amounts, Zenon
<1>4. Cancels(18, -18)
  <2>1. 18 + (-18) = 0 OBVIOUS
  <2> QED BY <2>1, RotlAndBack, Amounts, Zenon
<1>5. Cancels(20, -20)
  <2>1. 20 + (-20) = 0 OBVIOUS
  <2> QED BY <2>1, RotlAndBack, Amounts, Zenon
<1>6. Cancels(1, -1)
  <2>1. 1 + (-1) = 0 OBVIOUS
  <2> QED BY <2>1, RotlAndBack, Amounts, Zenon
<1>7. Cancels(-4, 4)
  <2>1. -4 + (4) = 0 OBVIOUS
  <2> QED BY <2>1, RotlAndBack, Amounts, Zenon
<1>8. Cancels(-6, 6)
  <2>1. -6 + (6) = 0 OBVIOUS
  <2> QED BY <2>1, RotlAndBack, Amounts, Zenon
<1>9. Cancels(-9, 9)
  <2>1. -9 + (9) = 0 OBVIOUS
  <2> QED BY <2>1, RotlAndBack, Amounts, Zenon
<1>10. Cancels(-18, 18)
  <2>1. -18 + (18) = 0 OBVIOUS
  <2> QED BY <2>1, RotlAndBack, Amounts, Zenon
<1>11. Cancels(-20, 20)
  <2>1. -20 + (20) = 0 OBVIOUS
  <2> QED BY <2>1, RotlAndBack, Amounts, Zenon
<1>12. Cancels(-1, 1)
  <2>1. -1 + (1) = 0 OBVIOUS
  <2> QED BY <2>1, RotlAndBack, Amounts, Zenon
<1> QED BY <1>1, <1>2, <1>3, <1>4, <1>5, <1>6, <1>7, <1>8, <1>9, <1>10, <1>11, <1>12

\* The final permutation undoes the initial one, with the halves exchanged.
LEMMA FinalUndoesInitial ==
  ASSUME NEW x \in WordPairs(32)
  PROVE  /\ C64!IPERM(x) \in WordPairs(32)
         /\ C64!FPERM(C64!Swap(C64!IPERM(x))) = C64!Swap(x)
<1>1. PICK u1 \in WordPairs(32) : u1 = C64!TurnR(x, 4, C64!Nibbles) BY Turned
<1>2. PICK u2 \in WordPairs(32) : u2 = C64!TurnR(u1, -20, 16 .. 31) BY Turned
<1>3. PICK u3 \in WordPairs(32) : u3 = C64!TurnR(u2, -18, C64!Pairs) BY Turned
<1>4. PICK u4 \in WordPairs(32) : u4 = C64!TurnR(u3, -6, C64!EvenBytes) BY Turned
<1>5. PICK u5 \in WordPairs(32) : u5 = C64!TurnR(u4, 9, C64!OddBits) BY Turned
<1>6. PICK v1 \in Word(32), v2 \in Word(32) : v1 = Rotl(32, u5[1], 1) /\ v2 = u5[2] /\ Rotl(32, v1, -1) = u5[1]
  <2>1. u5[1] \in Word(32) /\ u5[2] \in Word(32) BY PairsAre
  <2>2. Rotl(32, u5[1], 1) \in Word(32) /\ Rotl(32, Rotl(32, u5[1], 1), -1) = u5[1]
    BY <2>1, Cancelled DEF Cancels
  <2> QED BY <2>1, <2>2
<1>7. C64!IPERM(x) = <<v1, v2>>
  BY <1>1, <1>2, <1>3, <1>4, <1>5, <1>6, Words64 DEF C64!IPERM, C64!RotateL
<1>8. C64!TurnR(<<v2, v1>>, -1, C64!OddBits) = <<Rotl(32, u4[2], 9), u4[1]>>
  <2>1. C64!TurnR(<<v2, v1>>, -1, C64!OddBits) = SwapBits(u5[2], u5[1], C64!OddBits)
    BY <1>6, Words64 DEF C64!TurnR, C64!SwapBits, SwapBits
  <2> QED BY <1>5, <2>1, Turned
<1>9. C64!TurnL(<<Rotl(32, u4[2], 9), u4[1]>>, -9, C64!EvenBytes) = <<Rotl(32, u3[2], -6), u3[1]>>
  <2>1. ReturnR(-6, C64!EvenBytes, 9, -9) BY Returned, Amounts, Cancelled, Zenon
  <2> QED BY <1>4, <2>1 DEF ReturnR
<1>10. C64!TurnL(<<Rotl(32, u3[2], -6), u3[1]>>, 6, C64!Pairs) = <<Rotl(32, u2[2], -18), u2[1]>>
  <2>1. ReturnR(-18, C64!Pairs, -6, 6) BY Returned, Amounts, Cancelled, Zenon
  <2> QED BY <1>3, <2>1 DEF ReturnR
<1>11. C64!TurnL(<<Rotl(32, u2[2], -18), u2[1]>>, 18, 16 .. 31) = <<Rotl(32, u1[2], -20), u1[1]>>
  <2>1. ReturnR(-20, 16 .. 31, -18, 18) BY Returned, Amounts, Cancelled, Zenon
  <2> QED BY <1>2, <2>1 DEF ReturnR
<1>12. C64!TurnL(<<Rotl(32, u1[2], -20), u1[1]>>, 20, C64!Nibbles) = <<Rotl(32, x[2], 4), x[1]>>
  <2>1. ReturnR(4, C64!Nibbles, -20, 20) BY Returned, Amounts, Cancelled, Zenon
  <2> QED BY <1>1, <2>1 DEF ReturnR
<1>13. Rotl(32, Rotl(32, x[2], 4), -4) = x[2]
  <2>1. x[2] \in Word(32) BY PairsAre
  <2> QED BY <2>1, Cancelled DEF Cancels
<1>14. C64!Swap(<<v1, v2>>) = <<v2, v1>> BY DEF C64!Swap
<1>15. C64!FPERM(<<v2, v1>>) = <<x[2], x[1]>>
  BY <1>8, <1>9, <1>10, <1>11, <1>12, <1>13, Words64 DEF C64!FPERM, C64!RotateL
<1> QED BY <1>7, <1>14, <1>15, PairsAre DEF C64!Swap

\* And the initial the final.
LEMMA InitialUndoesFinal ==
  ASSUME NEW x \in WordPairs(32)
  PROVE  /\ C64!Swap(C64!FPERM(x)) \in WordPairs(32)
         /\ C64!IPERM(C64!Swap(C64!FPERM(x))) = C64!Swap(x)
<1>1. PICK u1 \in WordPairs(32) : u1 = C64!TurnR(x, -1, C64!OddBits) BY Turned
<1>2. PICK u2 \in WordPairs(32) : u2 = C64!TurnL(u1, -9, C64!EvenBytes) BY Turned
<1>3. PICK u3 \in WordPairs(32) : u3 = C64!TurnL(u2, 6, C64!Pairs) BY Turned
<1>4. PICK u4 \in WordPairs(32) : u4 = C64!TurnL(u3, 18, 16 .. 31) BY Turned
<1>5. PICK u5 \in WordPairs(32) : u5 = C64!TurnL(u4, 20, C64!Nibbles) BY Turned
<1>6. PICK v1 \in Word(32), v2 \in Word(32) : v1 = Rotl(32, u5[1], -4) /\ v2 = u5[2]
  BY PairsAre, Rotations
<1>7. C64!FPERM(x) = <<v1, v2>>
  BY <1>1, <1>2, <1>3, <1>4, <1>5, <1>6, Words64 DEF C64!FPERM, C64!RotateL
<1>8. C64!TurnR(<<v2, v1>>, 4, C64!Nibbles) = <<u4[2], Rotl(32, u4[1], 20)>>
  <2>1. ReturnL(20, C64!Nibbles, -4, 4) BY Returned, Amounts, Cancelled, Zenon
  <2> QED BY <1>5, <1>6, <2>1 DEF ReturnL
<1>9. C64!TurnR(<<u4[2], Rotl(32, u4[1], 20)>>, -20, 16 .. 31) = <<u3[2], Rotl(32, u3[1], 18)>>
  <2>1. ReturnL(18, 16 .. 31, 20, -20) BY Returned, Amounts, Cancelled, Zenon
  <2> QED BY <1>4, <2>1 DEF ReturnL
<1>10. C64!TurnR(<<u3[2], Rotl(32, u3[1], 18)>>, -18, C64!Pairs) = <<u2[2], Rotl(32, u2[1], 6)>>
  <2>1. ReturnL(6, C64!Pairs, 18, -18) BY Returned, Amounts, Cancelled, Zenon
  <2> QED BY <1>3, <2>1 DEF ReturnL
<1>11. C64!TurnR(<<u2[2], Rotl(32, u2[1], 6)>>, -6, C64!EvenBytes) = <<u1[2], Rotl(32, u1[1], -9)>>
  <2>1. ReturnL(-9, C64!EvenBytes, 6, -6) BY Returned, Amounts, Cancelled, Zenon
  <2> QED BY <1>2, <2>1 DEF ReturnL
<1>12. C64!TurnR(<<u1[2], Rotl(32, u1[1], -9)>>, 9, C64!OddBits) = <<Rotl(32, x[2], -1), x[1]>>
  <2>1. u1[1] \in Word(32) /\ u1[2] \in Word(32) BY PairsAre
  <2>2. Rotl(32, Rotl(32, u1[1], -9), 9) = u1[1] BY <2>1, Cancelled DEF Cancels
  <2>3. C64!TurnR(<<u1[2], Rotl(32, u1[1], -9)>>, 9, C64!OddBits) = SwapBits(u1[2], u1[1], C64!OddBits)
    BY <2>2, Words64 DEF C64!TurnR, C64!SwapBits, SwapBits
  <2> QED BY <1>1, <2>3, Turned
<1>13. Rotl(32, Rotl(32, x[2], -1), 1) = x[2]
  <2>1. x[2] \in Word(32) BY PairsAre
  <2> QED BY <2>1, Cancelled DEF Cancels
<1>14. C64!Swap(<<v1, v2>>) = <<v2, v1>> BY DEF C64!Swap
<1>15. C64!IPERM(<<v2, v1>>) = <<x[2], x[1]>>
  BY <1>8, <1>9, <1>10, <1>11, <1>12, <1>13, Words64 DEF C64!IPERM, C64!RotateL
<1> QED BY <1>7, <1>14, <1>15, PairsAre DEF C64!Swap

LEMMA StartFinish ==
  /\ \A in \in Block8 :
       C64!Start(in) \in WordPairs(32) /\ C64!Finish(C64!Swap(C64!Start(in))) = in
  /\ \A x \in WordPairs(32) :
       C64!Finish(x) \in Block8 /\ C64!Start(C64!Finish(x)) = C64!Swap(x)
<1>1. ASSUME NEW in \in Block8
      PROVE  /\ WordsBE(4, in) \in WordPairs(32) /\ BytesBE(4, WordsBE(4, in)) = in
             /\ C64!Start(in) = C64!IPERM(WordsBE(4, in))
  <2>1. <<PackBE(SubSeq(in, 1, 4)), PackBE(SubSeq(in, 5, 8))>> = WordsBE(4, in)
        /\ WordsBE(4, in) \in WordPairs(32) /\ BytesBE(4, WordsBE(4, in)) = in
    BY WordsOf8 DEF TwoWordsAre, Block8
  <2>2. \A b : C64!PackBE(b) = PackBE(b) BY DEF C64!PackBE, PackBE
  <2> QED BY <2>1, <2>2 DEF C64!Start
<1>2. ASSUME NEW v \in WordPairs(32) PROVE BytesBE(4, v) \in Block8 /\ WordsBE(4, BytesBE(4, v)) = v
  BY WordsOf8 DEF TwoWordsAre, Block8
<1>3. \A v : C64!Finish(v) = BytesBE(4, C64!Swap(C64!FPERM(v))) BY Words64 DEF C64!Finish
<1>4. \A v \in WordPairs(32) : C64!Swap(v) \in WordPairs(32) /\ C64!Swap(C64!Swap(v)) = v
  BY PairsAre DEF C64!Swap
<1>5. ASSUME NEW in \in Block8
      PROVE  C64!Start(in) \in WordPairs(32) /\ C64!Finish(C64!Swap(C64!Start(in))) = in
  <2>1. PICK v \in WordPairs(32) : v = WordsBE(4, in) /\ BytesBE(4, v) = in /\ C64!Start(in) = C64!IPERM(v)
    BY <1>1
  <2>2. C64!IPERM(v) \in WordPairs(32) /\ C64!FPERM(C64!Swap(C64!IPERM(v))) = C64!Swap(v)
    BY FinalUndoesInitial
  <2> QED BY <1>3, <1>4, <2>1, <2>2
<1>6. ASSUME NEW x \in WordPairs(32)
      PROVE  C64!Finish(x) \in Block8 /\ C64!Start(C64!Finish(x)) = C64!Swap(x)
  <2>1. PICK v \in WordPairs(32) : v = C64!Swap(C64!FPERM(x)) /\ C64!IPERM(v) = C64!Swap(x)
    BY InitialUndoesFinal
  <2>2. C64!Finish(x) = BytesBE(4, v) BY <1>3, <2>1
  <2> QED BY <1>1, <1>2, <2>1, <2>2
<1> QED BY <1>5, <1>6

LEMMA DesInverse ==
  ASSUME NEW k, NEW d, Reverses(k, d), NEW in \in Block8
  PROVE  /\ C64!Finish(C64!ProcessBlock(k, C64!Start(in))) \in Block8
         /\ C64!Finish(C64!ProcessBlock(d, C64!Start(C64!Finish(C64!ProcessBlock(k, C64!Start(in)))))) = in
<1>1. PICK x \in WordPairs(32) : x = C64!Start(in) /\ C64!Finish(C64!Swap(x)) = in BY StartFinish
<1>2. PICK y \in WordPairs(32) : y = C64!ProcessBlock(k, x) /\ C64!ProcessBlock(d, C64!Swap(y)) = C64!Swap(x)
  BY DesCore
<1>3. C64!Finish(y) \in Block8 /\ C64!Start(C64!Finish(y)) = C64!Swap(y) BY StartFinish
<1> QED BY <1>1, <1>2, <1>3

LEMMA EdeInverse ==
  ASSUME NEW k1, NEW k2, NEW k3, NEW d1, NEW d2, NEW d3,
         Reverses(k1, d1), Reverses(k2, d2), Reverses(k3, d3), NEW in \in Block8
  PROVE  /\ C64!EDE(k1, k2, k3, in) \in Block8
         /\ C64!EDE(d3, d2, d1, C64!EDE(k1, k2, k3, in)) = in
<1>1. PICK x \in WordPairs(32) : x = C64!Start(in) /\ C64!Finish(C64!Swap(x)) = in BY StartFinish
<1>2. PICK a \in WordPairs(32) : a = C64!ProcessBlock(k1, x) /\ C64!ProcessBlock(d1, C64!Swap(a)) = C64!Swap(x)
  BY DesCore
<1>3. \A v \in WordPairs(32) : C64!Swap(v) \in WordPairs(32) /\ C64!Swap(C64!Swap(v)) = v
  BY PairsAre DEF C64!Swap
<1>4. PICK b \in WordPairs(32) : b = C64!ProcessBlock(k2, C64!Swap(a)) /\ C64!ProcessBlock(d2, C64!Swap(b)) = a
  BY <1>3, DesCore
<1>5. PICK y \in WordPairs(32) : y = C64!ProcessBlock(k3, C64!Swap(b)) /\ C64!ProcessBlock(d3, C64!Swap(y)) = b
  BY <1>3, DesCore
<1>6. C64!EDE(k1, k2, k3, in) = C64!Finish(y) BY <1>1, <1>2, <1>4, <1>5 DEF C64!EDE
<1>7. C64!Finish(y) \in Block8 /\ C64!Start(C64!Finish(y)) = C64!Swap(y) BY StartFinish
<1>8. C64!EDE(d3, d2, d1, C64!Finish(y)) = C64!Finish(C64!Swap(x))
  BY <1>2, <1>4, <1>5, <1>7 DEF C64!EDE
<1> QED BY <1>1, <1>6, <1>7, <1>8

----------------------------------------------------------------------------
(* SEED. *)

LEMMA Words128 ==
  /\ \A w : C128!Word(w) = Word(w) /\ C128!WordPairs(w) = WordPairs(w)
  /\ \A w, n : C128!Words(w, n) = Words(w, n)
  /\ \A x, y : C128!Xor(x, y) = Xor(x, y)
  /\ \A x, y, z : C128!Xor3(x, y, z) = Xor3(x, y, z)
  /\ \A w, x, y : C128!Plus(w, x, y) = Plus(w, x, y) /\ C128!Minus(w, x, y) = Minus(w, x, y)
  /\ \A w, x, n : C128!Rotl(w, x, n) = Rotl(w, x, n) /\ C128!Rotr(w, x, n) = Rotr(w, x, n)
  /\ \A n, b : C128!WordsBE(n, b) = WordsBE(n, b) /\ C128!BytesBE(n, b) = BytesBE(n, b)
  /\ \A n, b : C128!WordsLE(n, b) = WordsLE(n, b) /\ C128!BytesLE(n, b) = BytesLE(n, b)
  /\ \A n, x, turn : C128!Iterated(n, x, turn) = Iterated(n, x, turn)
BY DEF C128!Word, C128!WordPairs, C128!Words, C128!Xor, C128!Xor3, C128!Plus, C128!Minus, C128!Rotl, C128!Rotr,
       C128!WordsBE, C128!BytesBE, C128!WordsLE, C128!BytesLE, C128!Iterated, C128!PackBE, C128!PackLE,
       C128!GetByte, C128!Field, C128!Shl, Shl, Word, WordPairs, Words, Xor, Xor3, Plus, Minus, Rotl, Rotr,
       WordsBE, BytesBE, WordsLE, BytesLE, Iterated, PackBE, PackLE, GetByte, Field

LEMMA SeedG == \A x : C128!g(x) \in Word(32)
<1> TAKE x
<1>1. ASSUME NEW n \in 0 .. 3 PROVE C128!GetByte(x, n) \in Word(10)
  <2>1. 8*n \in Int OBVIOUS
  <2> QED BY Zenon, <2>1, ByteOf DEF C128!GetByte, C128!Field, Field
<1>2. 400 \in WordTables /\ 401 \in WordTables /\ 402 \in WordTables /\ 403 \in WordTables
  BY DEF WordTables
<1>3. /\ C128!ss0(C128!GetByte(x, 0)) \in Word(32) /\ C128!ss1(C128!GetByte(x, 1)) \in Word(32)
      /\ C128!ss2(C128!GetByte(x, 2)) \in Word(32) /\ C128!ss3(C128!GetByte(x, 3)) \in Word(32)
  BY <1>1, <1>2, TableAssumption DEF C128!ss0, C128!ss1, C128!ss2, C128!ss3
<1>4. \A a, b, c, d : C128!Xor4(a, b, c, d) = Xor(Xor(a, b), Xor(c, d))
  BY DEF C128!Xor4, C128!Xor, Xor
<1> QED BY <1>3, <1>4, Xor32 DEF C128!g

LEMMA SeedF == \A k, r : C128!f(k, r) \in Word(64)
<1> TAKE k, r
<1>1. ASSUME NEW x \in Word(32), NEW y \in Word(32) PROVE C128!Join(32, x, y) \in Word(64)
  <2>1. \A i \in x : i + 32 \in 0 .. 64 - 1 BY DEF Word
  <2>2. \A i \in y : i \in 0 .. 64 - 1 BY DEF Word
  <2> QED BY Zenon, <2>1, <2>2 DEF C128!Join, Word
<1>2. 32 \in Nat \ {0} OBVIOUS
<1>3. PICK a0 : a0 = C128!Xor(C128!High(32, r), C128!High(32, k)) OBVIOUS
<1>4. PICK ga \in Word(32) : ga = C128!g(C128!Xor3(a0, C128!Low(32, r), C128!Low(32, k))) BY SeedG
<1>5. PICK gg \in Word(32) : gg = C128!g(C128!Plus(32, ga, a0)) BY SeedG
<1>6. PICK r1p \in Word(32) : r1p = C128!g(C128!Plus(32, gg, ga)) BY SeedG
<1>7. C128!Plus(32, r1p, gg) \in Word(32) BY <1>2, PlusMinus, Words128
<1>8. C128!f(k, r) = C128!Join(32, C128!Plus(32, r1p, gg), r1p)
  BY <1>3, <1>4, <1>5, <1>6 DEF C128!f
<1> QED BY <1>1, <1>7, <1>8

LEMMA SeedRounds ==
  ASSUME NEW k, NEW i, NEW x \in WordPairs(64)
  PROVE  /\ C128!SeedRound(k, i, x) \in WordPairs(64) /\ C128!SeedUnround(k, i, x) \in WordPairs(64)
         /\ C128!SeedUnround(k, i, C128!SeedRound(k, i, x)) = x
         /\ C128!SeedRound(k, i, C128!SeedUnround(k, i, x)) = x
         /\ C128!SeedLast(k, x) \in WordPairs(64) /\ C128!SeedLast(k, C128!SeedLast(k, x)) = x
<1>1. PICK a \in Word(64), b \in Word(64) : x = <<a, b>> BY PairsAre
<1>2. PICK p \in Word(64), q \in Word(64), z \in Word(64) :
        p = C128!f(k[i], b) /\ q = C128!f(k[i], a) /\ z = C128!f(k[16], b)
  BY SeedF
<1>3. PICK ap \in Word(64), bq \in Word(64), az \in Word(64) :
        /\ ap = Xor(a, p) /\ bq = Xor(b, q) /\ az = Xor(a, z)
        /\ Xor(ap, p) = a /\ Xor(bq, q) = b /\ Xor(az, z) = a
  BY Xor32, XorTwice
<1>4. C128!SeedRound(k, i, x) = <<b, ap>> /\ C128!SeedUnround(k, i, x) = <<bq, a>> /\ C128!SeedLast(k, x) = <<az, b>>
  BY <1>1, <1>2, <1>3, Words128 DEF C128!SeedRound, C128!SeedUnround, C128!SeedLast
<1>5. C128!SeedUnround(k, i, <<b, ap>>) = <<a, b>> /\ C128!SeedRound(k, i, <<bq, a>>) = <<a, b>>
      /\ C128!SeedLast(k, <<az, b>>) = <<a, b>>
  BY <1>2, <1>3, Words128 DEF C128!SeedRound, C128!SeedUnround, C128!SeedLast
<1> QED BY <1>1, <1>4, <1>5, PairsAre

LEMMA SeedInverse ==
  ASSUME NEW k, NEW in \in Block16
  PROVE  /\ C128!SeedEncrypt(k, in) \in Block16 /\ C128!SeedDecrypt(k, C128!SeedEncrypt(k, in)) = in
         /\ C128!SeedDecrypt(k, in) \in Block16 /\ C128!SeedEncrypt(k, C128!SeedDecrypt(k, in)) = in
<1> DEFINE S == WordPairs(64)
<1>1. PICK turn, back :
        /\ turn = [t \in S \X (1 .. 15) |-> C128!SeedRound(k, t[2], t[1])]
        /\ back = [t \in S \X (1 .. 15) |-> C128!SeedUnround(k, 16 - t[2], t[1])]
  BY Zenon
<1>2. ASSUME NEW s \in S, NEW i \in 1 .. 15
      PROVE  turn[<<s, i>>] = C128!SeedRound(k, i, s) /\ back[<<s, i>>] = C128!SeedUnround(k, 16 - i, s)
  <2>1. <<s, i>> \in S \X (1 .. 15) OBVIOUS
  <2> QED BY <1>1, <2>1
<1>3. StepsIn(15, S, turn) /\ StepsIn(15, S, back)
  <2>1. ASSUME NEW s \in S, NEW i \in 1 .. 15 PROVE turn[<<s, i>>] \in S /\ back[<<s, i>>] \in S
    <3>1. C128!SeedRound(k, i, s) \in S /\ C128!SeedUnround(k, 16 - i, s) \in S BY SeedRounds
    <3> QED BY Zenon, <1>2, <3>1
  <2> QED BY Zenon, <2>1 DEF StepsIn
<1>4. ASSUME NEW i \in 1 .. 15, NEW s \in S
      PROVE  back[<<turn[<<s, i>>], 15 + 1 - i>>] = s /\ turn[<<back[<<s, i>>], 15 + 1 - i>>] = s
  <2>1. 15 + 1 - i \in 1 .. 15 /\ 16 - (15 + 1 - i) = i /\ 15 + 1 - i = 16 - i OBVIOUS
  <2>2. PICK y \in S : y = C128!SeedRound(k, i, s) /\ C128!SeedUnround(k, i, y) = s BY SeedRounds
  <2>3. PICK z \in S : z = C128!SeedUnround(k, 16 - i, s) /\ C128!SeedRound(k, 16 - i, z) = s BY SeedRounds
  <2> QED BY Zenon, <1>2, <2>1, <2>2, <2>3
<1>5. LoopsBack(15, S, turn, back) /\ LoopsBack(15, S, back, turn) BY Zenon, <1>3, <1>4 DEF LoopsBack
<1>6. PICK v \in S : C128!Halves(in) = v /\ BytesBE(8, v) = in
  BY WordsOf16 DEF TwoWordsAre, C128!Halves, C128!PackBE, PackBE, Block16
<1>7. \A u \in S : BytesBE(8, u) \in Block16 /\ C128!Halves(BytesBE(8, u)) = u
  BY WordsOf16 DEF TwoWordsAre, C128!Halves, C128!PackBE, PackBE, Block16
<1>8. \A b : /\ C128!SeedEncrypt(k, b) = BytesBE(8, C128!SeedLast(k, Iterated(15, C128!Halves(b), turn)))
             /\ C128!SeedDecrypt(k, b) = BytesBE(8, Iterated(15, C128!SeedLast(k, C128!Halves(b)), back))
  BY <1>1, Words128 DEF C128!SeedEncrypt, C128!SeedDecrypt
<1>9. 15 \in Nat OBVIOUS
<1>10. C128!SeedEncrypt(k, in) \in Block16 /\ C128!SeedDecrypt(k, C128!SeedEncrypt(k, in)) = in
  <2>1. PICK e \in S : e = Iterated(15, v, turn) /\ Iterated(15, e, back) = v BY <1>5, <1>9, LoopBack
  <2>2. PICK l \in S : l = C128!SeedLast(k, e) /\ C128!SeedLast(k, l) = e BY SeedRounds
  <2>3. C128!SeedEncrypt(k, in) = BytesBE(8, l) BY <1>6, <1>8, <2>1, <2>2
  <2> QED BY <1>6, <1>7, <1>8, <2>1, <2>2, <2>3
<1>11. C128!SeedDecrypt(k, in) \in Block16 /\ C128!SeedEncrypt(k, C128!SeedDecrypt(k, in)) = in
  <2>1. PICK l \in S : l = C128!SeedLast(k, v) /\ C128!SeedLast(k, l) = v BY SeedRounds
  <2>2. PICK e \in S : e = Iterated(15, l, back) /\ Iterated(15, e, turn) = l BY <1>5, <1>9, LoopBack
  <2>3. C128!SeedDecrypt(k, in) = BytesBE(8, e) BY <1>6, <1>8, <2>1, <2>2
  <2> QED BY <1>6, <1>7, <1>8, <2>1, <2>2, <2>3
<1> QED BY <1>10, <1>11

----------------------------------------------------------------------------
(* CAST-128 and CAST-256. *)

LEMMA WordsCast ==
  /\ \A w : CA!Word(w) = Word(w) /\ CA!WordPairs(w) = WordPairs(w)
  /\ \A w, n : CA!Words(w, n) = Words(w, n)
  /\ \A x, y : CA!Xor(x, y) = Xor(x, y)
  /\ \A w, x, y : CA!Plus(w, x, y) = Plus(w, x, y) /\ CA!Minus(w, x, y) = Minus(w, x, y)
  /\ \A n, b : CA!WordsBE(n, b) = WordsBE(n, b) /\ CA!BytesBE(n, b) = BytesBE(n, b)
  /\ \A n, x, turn : CA!Iterated(n, x, turn) = Iterated(n, x, turn)
BY DEF CA!Word, CA!WordPairs, CA!Words, CA!Xor, CA!Plus, CA!Minus,
       CA!WordsBE, CA!BytesBE, CA!Iterated, CA!PackBE,
       CA!GetByte, CA!Field, CA!Shl, Shl, Word, WordPairs, Words, Xor, Plus, Minus,
       WordsBE, BytesBE, Iterated, PackBE, GetByte, Field

\* The three round functions, whatever their arguments.
LEMMA CastF ==
  /\ \A x, km, kr : CA!f1(x, km, kr) \in Word(32) /\ CA!f2(x, km, kr) \in Word(32) /\ CA!f3(x, km, kr) \in Word(32)
  /\ \A n \in Nat : \A x, km, kr : CA!InTurn(n, x, km, kr) \in Word(32)
<1>1. ASSUME NEW v, NEW t \in 0 .. 3 PROVE CA!item(t, v) \in Word(32)
  <2>1. 3 - t \in 0 .. 3 /\ 8*(3 - t) \in Int OBVIOUS
  <2>2. CA!GetByte(v, 3 - t) \in Word(10) BY Zenon, <2>1, ByteOf DEF CA!GetByte, CA!Field, Field
  <2>3. 500 \in WordTables /\ 501 \in WordTables /\ 502 \in WordTables /\ 503 \in WordTables
    BY DEF WordTables
  <2>4. \A x \in Word(10) : /\ CA!m_s0(x) \in Word(32) /\ CA!m_s1(x) \in Word(32)
                            /\ CA!m_s2(x) \in Word(32) /\ CA!m_s3(x) \in Word(32)
    BY <2>3, TableAssumption DEF CA!m_s0, CA!m_s1, CA!m_s2, CA!m_s3
  <2>5. t = 0 \/ t = 1 \/ t = 2 \/ t = 3 OBVIOUS
  <2> QED BY <2>2, <2>4, <2>5 DEF CA!item, CA!m_s
<1>2. ASSUME NEW v
      PROVE  \E a \in Word(32), b \in Word(32), c \in Word(32), d \in Word(32) :
               CA!items(v)[0] = a /\ CA!items(v)[1] = b /\ CA!items(v)[2] = c /\ CA!items(v)[3] = d
  <2>1. \A t \in 0 .. 3 : CA!items(v)[t] = CA!item(t, v) BY DEF CA!items
  <2>2. 0 \in 0 .. 3 /\ 1 \in 0 .. 3 /\ 2 \in 0 .. 3 /\ 3 \in 0 .. 3 OBVIOUS
  <2> QED BY <1>1, <2>1, <2>2
<1>3. 32 \in Nat \ {0} OBVIOUS
<1>4. \A a \in Word(32), b \in Word(32) :
        CA!Add(a, b) \in Word(32) /\ CA!Sub(a, b) \in Word(32) /\ CA!Xor(a, b) \in Word(32)
  BY <1>3, PlusMinus, WordsCast, Xor32 DEF CA!Add, CA!Sub
<1>5. ASSUME NEW v
      PROVE  CA!Sum1(CA!items(v)) \in Word(32) /\ CA!Sum2(CA!items(v)) \in Word(32) /\ CA!Sum3(CA!items(v)) \in Word(32)
  <2>1. PICK a \in Word(32), b \in Word(32), c \in Word(32), d \in Word(32) :
          CA!items(v)[0] = a /\ CA!items(v)[1] = b /\ CA!items(v)[2] = c /\ CA!items(v)[3] = d
    BY <1>2
  <2>2. CA!Sum1(CA!items(v)) = CA!Add(CA!Sub(CA!Xor(a, b), c), d)
        /\ CA!Sum2(CA!items(v)) = CA!Xor(CA!Add(CA!Sub(a, b), c), d)
        /\ CA!Sum3(CA!items(v)) = CA!Sub(CA!Xor(CA!Add(a, b), c), d)
    BY <2>1 DEF CA!Sum1, CA!Sum2, CA!Sum3
  <2>3. CA!Add(CA!Sub(CA!Xor(a, b), c), d) \in Word(32) BY <1>4
  <2>4. CA!Xor(CA!Add(CA!Sub(a, b), c), d) \in Word(32) BY <1>4
  <2>5. CA!Sub(CA!Xor(CA!Add(a, b), c), d) \in Word(32) BY <1>4
  <2> QED BY <2>2, <2>3, <2>4, <2>5
<1>6. \A x, km, kr : CA!f1(x, km, kr) \in Word(32) /\ CA!f2(x, km, kr) \in Word(32) /\ CA!f3(x, km, kr) \in Word(32)
  BY <1>5 DEF CA!f1, CA!f2, CA!f3
<1>7. \A n \in Nat : n % 3 = 0 \/ n % 3 = 1 \/ n % 3 = 2 OBVIOUS
<1> QED BY <1>6, <1>7 DEF CA!InTurn

\* A round of CAST-128, and what undoes it with the halves exchanged.
LEMMA CastRounds ==
  ASSUME NEW c, NEW i \in Nat \ {0}, NEW x \in WordPairs(32)
  PROVE  /\ CA!Feistel5(c, i, x) \in WordPairs(32) /\ CA!Swapped(x) \in WordPairs(32)
         /\ CA!Swapped(CA!Swapped(x)) = x
         /\ CA!Feistel5(c, i, CA!Swapped(CA!Feistel5(c, i, x))) = CA!Swapped(x)
<1>1. PICK a \in Word(32), b \in Word(32) : x = <<a, b>> BY PairsAre
<1>2. i - 1 \in Nat OBVIOUS
<1>3. PICK p \in Word(32) : p = CA!Round5(c, i, b) BY <1>2, CastF DEF CA!Round5
<1>4. PICK ap \in Word(32) : ap = Xor(a, p) /\ Xor(ap, p) = a BY Xor32, XorTwice
<1>5. CA!Feistel5(c, i, x) = <<b, ap>> BY <1>1, <1>3, <1>4, WordsCast DEF CA!Feistel5
<1>6. CA!Feistel5(c, i, <<ap, b>>) = <<b, a>> BY <1>3, <1>4, WordsCast DEF CA!Feistel5
<1>7. CA!Swapped(<<b, ap>>) = <<ap, b>> /\ CA!Swapped(x) = <<b, a>> /\ CA!Swapped(<<b, a>>) = x
  BY <1>1 DEF CA!Swapped
<1> QED BY <1>5, <1>6, <1>7, PairsAre

LEMMA Cast5Inverse ==
  ASSUME NEW c, NEW in \in Block8
  PROVE  /\ CA!Encrypt5(c, in) \in Block8 /\ CA!Decrypt5(c, CA!Encrypt5(c, in)) = in
         /\ CA!Decrypt5(c, in) \in Block8 /\ CA!Encrypt5(c, CA!Decrypt5(c, in)) = in
<1> DEFINE S == WordPairs(32)
<1>0. PICK n \in Nat : n = CA!Iters(c)
  <2>1. 16 \in Nat /\ 12 \in Nat OBVIOUS
  <2> QED BY <2>1 DEF CA!Iters
<1>1. PICK turn, back, P :
        /\ turn = [t \in S \X (1 .. n) |-> CA!Feistel5(c, t[2], t[1])]
        /\ back = [t \in S \X (1 .. n) |-> CA!Feistel5(c, n + 1 - t[2], t[1])]
        /\ P = [s \in S |-> CA!Swapped(s)]
  BY Zenon
<1>2. ASSUME NEW s \in S, NEW i \in 1 .. n
      PROVE  turn[<<s, i>>] = CA!Feistel5(c, i, s) /\ back[<<s, i>>] = CA!Feistel5(c, n + 1 - i, s)
  <2>1. <<s, i>> \in S \X (1 .. n) OBVIOUS
  <2> QED BY <1>1, <2>1
<1>3. ASSUME NEW s \in S PROVE P[s] = CA!Swapped(s) /\ P[s] \in S /\ P[P[s]] = s
  <2>1. 1 \in Nat \ {0} OBVIOUS
  <2>2. CA!Swapped(s) \in S /\ CA!Swapped(CA!Swapped(s)) = s BY <2>1, CastRounds
  <2> QED BY <1>1, <2>2
<1>4. ASSUME NEW s \in S, NEW i \in 1 .. n
      PROVE  /\ turn[<<s, i>>] \in S /\ back[<<s, i>>] \in S
             /\ back[<<P[turn[<<s, i>>]], n + 1 - i>>] = P[s] /\ turn[<<P[back[<<s, i>>]], n + 1 - i>>] = P[s]
  <2>1. PICK j \in 1 .. n : j = n + 1 - i /\ n + 1 - j = i OBVIOUS
  <2>2. i \in Nat \ {0} /\ j \in Nat \ {0} OBVIOUS
  <2>3. PICK y \in S : y = CA!Feistel5(c, i, s) /\ CA!Feistel5(c, i, CA!Swapped(y)) = CA!Swapped(s)
    BY <2>2, CastRounds
  <2>4. PICK z \in S : z = CA!Feistel5(c, j, s) /\ CA!Feistel5(c, j, CA!Swapped(z)) = CA!Swapped(s)
    BY <2>2, CastRounds
  <2>5. turn[<<s, i>>] = y /\ back[<<s, i>>] = z BY <1>2, <2>1, <2>3, <2>4
  <2>6. back[<<P[y], j>>] = CA!Feistel5(c, i, CA!Swapped(y)) /\ turn[<<P[z], j>>] = CA!Feistel5(c, j, CA!Swapped(z))
    BY <1>2, <1>3, <2>1
  <2> QED BY <1>3, <2>1, <2>3, <2>4, <2>5, <2>6
<1>5. TurnedBack(n, S, P, turn, back) /\ TurnedBack(n, S, P, back, turn)
  BY Zenon, <1>3, <1>4 DEF TurnedBack, StepsIn
<1>6. PICK v \in S : WordsBE(4, in) = v /\ BytesBE(4, v) = in
  BY WordsOf8 DEF TwoWordsAre, Block8
<1>7. \A u \in S : BytesBE(4, u) \in Block8 /\ WordsBE(4, BytesBE(4, u)) = u
  BY WordsOf8 DEF TwoWordsAre, Block8
<1>8. \A b : /\ CA!Encrypt5(c, b) = BytesBE(4, CA!Swapped(Iterated(n, WordsBE(4, b), turn)))
             /\ CA!Decrypt5(c, b) = BytesBE(4, CA!Swapped(Iterated(n, WordsBE(4, b), back)))
  BY <1>0, <1>1, WordsCast DEF CA!Encrypt5, CA!Decrypt5
<1>9. CA!Encrypt5(c, in) \in Block8 /\ CA!Decrypt5(c, CA!Encrypt5(c, in)) = in
  <2>1. PICK e \in S : e = Iterated(n, v, turn) /\ Iterated(n, P[e], back) = P[v] BY <1>5, LoopsUndo
  <2>2. CA!Encrypt5(c, in) = BytesBE(4, P[e]) BY <1>3, <1>6, <1>8, <2>1
  <2>3. CA!Decrypt5(c, BytesBE(4, P[e])) = BytesBE(4, CA!Swapped(P[v])) BY <1>3, <1>7, <1>8, <2>1
  <2> QED BY <1>3, <1>6, <1>7, <2>2, <2>3
<1>10. CA!Decrypt5(c, in) \in Block8 /\ CA!Encrypt5(c, CA!Decrypt5(c, in)) = in
  <2>1. PICK e \in S : e = Iterated(n, v, back) /\ Iterated(n, P[e], turn) = P[v] BY <1>5, LoopsUndo
  <2>2. CA!Decrypt5(c, in) = BytesBE(4, P[e]) BY <1>3, <1>6, <1>8, <2>1
  <2>3. CA!Encrypt5(c, BytesBE(4, P[e])) = BytesBE(4, CA!Swapped(P[v])) BY <1>3, <1>7, <1>8, <2>1
  <2> QED BY <1>3, <1>6, <1>7, <2>2, <2>3
<1> QED BY <1>9, <1>10

\* Each of the four assignments of Q undoes itself.
Assigned(d, j, p) == [d EXCEPT ![j] = Xor(@, p)]
LEMMA CastWord ==
  ASSUME NEW d \in Words(32, 4), NEW j \in 1 .. 4, NEW q \in 1 .. 4, q # j, NEW p \in Word(32)
  PROVE  /\ Assigned(d, j, p) \in Words(32, 4) /\ Assigned(Assigned(d, j, p), j, p) = d
         /\ Assigned(d, j, p)[q] = d[q]
<1>1. d \in [1 .. 4 -> Word(32)] BY DEF Words
<1>2. PICK b \in Word(32) : b = Xor(d[j], p) /\ Xor(b, p) = d[j] BY <1>1, Xor32, XorTwice
<1>3. PICK e \in [1 .. 4 -> Word(32)] : e = [d EXCEPT ![j] = b] BY Zenon, <1>1
<1>4. Assigned(d, j, p) = e BY <1>1, <1>2, <1>3 DEF Assigned
<1>5. e[j] = b /\ \A i \in 1 .. 4 : i # j => e[i] = d[i] BY <1>1, <1>3
<1>6. Assigned(e, j, p) = [e EXCEPT ![j] = d[j]] BY Zenon, <1>2, <1>5 DEF Assigned
<1>7. [e EXCEPT ![j] = d[j]] = d
  <2>1. PICK g \in [1 .. 4 -> Word(32)] : g = [e EXCEPT ![j] = d[j]] BY Zenon, <1>1
  <2>2. \A i \in 1 .. 4 : g[i] = d[i] BY <1>5, <2>1
  <2> QED BY <1>1, <2>1, <2>2
<1> QED BY Zenon, <1>3, <1>4, <1>5, <1>6, <1>7 DEF Words

LEMMA CastSteps ==
  ASSUME NEW c, NEW i, NEW d \in Words(32, 4)
  PROVE  /\ CA!Third(c, i, d) \in Words(32, 4) /\ CA!Third(c, i, CA!Third(c, i, d)) = d
         /\ CA!Second(c, i, d) \in Words(32, 4) /\ CA!Second(c, i, CA!Second(c, i, d)) = d
         /\ CA!First(c, i, d) \in Words(32, 4) /\ CA!First(c, i, CA!First(c, i, d)) = d
         /\ CA!Fourth(c, i, d) \in Words(32, 4) /\ CA!Fourth(c, i, CA!Fourth(c, i, d)) = d
<1>0. 1 \in 1 .. 4 /\ 2 \in 1 .. 4 /\ 3 \in 1 .. 4 /\ 4 \in 1 .. 4 /\ 3 # 4 /\ 2 # 3 /\ 1 # 2 /\ 4 # 1 OBVIOUS
<1>1. CA!Third(c, i, d) \in Words(32, 4) /\ CA!Third(c, i, CA!Third(c, i, d)) = d
  <2>1. PICK p \in Word(32) : p = CA!f1(d[4], c.km[i+1][1], c.kr[i+1][1]) BY CastF
  <2>2. PICK e \in Words(32, 4) : e = Assigned(d, 3, p) /\ e[4] = d[4] /\ Assigned(e, 3, p) = d
    BY <1>0, CastWord
  <2>3. CA!Third(c, i, d) = e BY Zenon, <2>1, <2>2, WordsCast DEF CA!Third, Assigned
  <2>4. CA!Third(c, i, e) = d BY <2>1, <2>2, WordsCast DEF CA!Third, Assigned
  <2> QED BY <2>3, <2>4
<1>2. CA!Second(c, i, d) \in Words(32, 4) /\ CA!Second(c, i, CA!Second(c, i, d)) = d
  <2>1. PICK p \in Word(32) : p = CA!f2(d[3], c.km[i+1][2], c.kr[i+1][2]) BY CastF
  <2>2. PICK e \in Words(32, 4) : e = Assigned(d, 2, p) /\ e[3] = d[3] /\ Assigned(e, 2, p) = d
    BY <1>0, CastWord
  <2>3. CA!Second(c, i, d) = e BY Zenon, <2>1, <2>2, WordsCast DEF CA!Second, Assigned
  <2>4. CA!Second(c, i, e) = d BY <2>1, <2>2, WordsCast DEF CA!Second, Assigned
  <2> QED BY <2>3, <2>4
<1>3. CA!First(c, i, d) \in Words(32, 4) /\ CA!First(c, i, CA!First(c, i, d)) = d
  <2>1. PICK p \in Word(32) : p = CA!f3(d[2], c.km[i+1][3], c.kr[i+1][3]) BY CastF
  <2>2. PICK e \in Words(32, 4) : e = Assigned(d, 1, p) /\ e[2] = d[2] /\ Assigned(e, 1, p) = d
    BY <1>0, CastWord
  <2>3. CA!First(c, i, d) = e BY Zenon, <2>1, <2>2, WordsCast DEF CA!First, Assigned
  <2>4. CA!First(c, i, e) = d BY <2>1, <2>2, WordsCast DEF CA!First, Assigned
  <2> QED BY <2>3, <2>4
<1>4. CA!Fourth(c, i, d) \in Words(32, 4) /\ CA!Fourth(c, i, CA!Fourth(c, i, d)) = d
  <2>1. PICK p \in Word(32) : p = CA!f1(d[1], c.km[i+1][4], c.kr[i+1][4]) BY CastF
  <2>2. PICK e \in Words(32, 4) : e = Assigned(d, 4, p) /\ e[1] = d[1] /\ Assigned(e, 4, p) = d
    BY <1>0, CastWord
  <2>3. CA!Fourth(c, i, d) = e BY Zenon, <2>1, <2>2, WordsCast DEF CA!Fourth, Assigned
  <2>4. CA!Fourth(c, i, e) = d BY <2>1, <2>2, WordsCast DEF CA!Fourth, Assigned
  <2> QED BY <2>3, <2>4
<1> QED BY <1>1, <1>2, <1>3, <1>4

LEMMA CastQs ==
  ASSUME NEW c, NEW i, NEW d \in Words(32, 4)
  PROVE  /\ CA!Q(c, d, i) \in Words(32, 4) /\ CA!Qbar(c, CA!Q(c, d, i), i) = d
         /\ CA!Qbar(c, d, i) \in Words(32, 4) /\ CA!Q(c, CA!Qbar(c, d, i), i) = d
<1>1. CA!Q(c, d, i) \in Words(32, 4) /\ CA!Qbar(c, CA!Q(c, d, i), i) = d
  <2>1. PICK e1 \in Words(32, 4) : e1 = CA!Third(c, i, d) /\ CA!Third(c, i, e1) = d BY CastSteps
  <2>2. PICK e2 \in Words(32, 4) : e2 = CA!Second(c, i, e1) /\ CA!Second(c, i, e2) = e1 BY CastSteps
  <2>3. PICK e3 \in Words(32, 4) : e3 = CA!First(c, i, e2) /\ CA!First(c, i, e3) = e2 BY CastSteps
  <2>4. PICK e4 \in Words(32, 4) : e4 = CA!Fourth(c, i, e3) /\ CA!Fourth(c, i, e4) = e3 BY CastSteps
  <2> QED BY <2>1, <2>2, <2>3, <2>4 DEF CA!Q, CA!Qbar
<1>2. CA!Qbar(c, d, i) \in Words(32, 4) /\ CA!Q(c, CA!Qbar(c, d, i), i) = d
  <2>1. PICK e1 \in Words(32, 4) : e1 = CA!Fourth(c, i, d) /\ CA!Fourth(c, i, e1) = d BY CastSteps
  <2>2. PICK e2 \in Words(32, 4) : e2 = CA!First(c, i, e1) /\ CA!First(c, i, e2) = e1 BY CastSteps
  <2>3. PICK e3 \in Words(32, 4) : e3 = CA!Second(c, i, e2) /\ CA!Second(c, i, e3) = e2 BY CastSteps
  <2>4. PICK e4 \in Words(32, 4) : e4 = CA!Third(c, i, e3) /\ CA!Third(c, i, e4) = e3 BY CastSteps
  <2> QED BY <2>1, <2>2, <2>3, <2>4 DEF CA!Q, CA!Qbar
<1> QED BY <1>1, <1>2

LEMMA Cast6Inverse ==
  ASSUME NEW c, NEW in \in Block16
  PROVE  /\ CA!Encrypt6(c, in) \in Block16 /\ CA!Decrypt6(c, CA!Encrypt6(c, in)) = in
         /\ CA!Decrypt6(c, in) \in Block16 /\ CA!Encrypt6(c, CA!Decrypt6(c, in)) = in
<1> DEFINE S == Words(32, 4)
<1>1. PICK turn, back :
        /\ turn = [t \in S \X (1 .. 12) |-> CA!Turn6(c, t[2], t[2] - 1, t[1])]
        /\ back = [t \in S \X (1 .. 12) |-> CA!Turn6(c, t[2], 12 - t[2], t[1])]
  BY Zenon
<1>2. ASSUME NEW s \in S, NEW i \in 1 .. 12
      PROVE  /\ turn[<<s, i>>] = IF i <= 6 THEN CA!Q(c, s, i - 1) ELSE CA!Qbar(c, s, i - 1)
             /\ back[<<s, i>>] = IF i <= 6 THEN CA!Q(c, s, 12 - i) ELSE CA!Qbar(c, s, 12 - i)
  <2>1. <<s, i>> \in S \X (1 .. 12) OBVIOUS
  <2>2. turn[<<s, i>>] = CA!Turn6(c, i, i - 1, s) /\ back[<<s, i>>] = CA!Turn6(c, i, 12 - i, s)
    BY <1>1, <2>1
  <2> QED BY <2>2 DEF CA!Turn6
<1>3. ASSUME NEW s \in S, NEW i \in 1 .. 12
      PROVE  /\ turn[<<s, i>>] \in S /\ back[<<s, i>>] \in S
             /\ back[<<turn[<<s, i>>], 12 + 1 - i>>] = s /\ turn[<<back[<<s, i>>], 12 + 1 - i>>] = s
  <2>1. PICK j \in 1 .. 12 : j = 12 + 1 - i /\ 12 - j = i - 1 /\ j - 1 = 12 - i /\ (i <= 6 <=> ~(j <= 6)) OBVIOUS
  <2>2. PICK k : k = i - 1 OBVIOUS
  <2>3. PICK m : m = 12 - i OBVIOUS
  <2>0. \A u \in S : /\ back[<<u, j>>] = IF j <= 6 THEN CA!Q(c, u, k) ELSE CA!Qbar(c, u, k)
                     /\ turn[<<u, j>>] = IF j <= 6 THEN CA!Q(c, u, m) ELSE CA!Qbar(c, u, m)
    <3> TAKE u \in S
    <3>1. 12 - j = k /\ j - 1 = m BY <2>1, <2>2, <2>3
    <3>2. /\ turn[<<u, j>>] = IF j <= 6 THEN CA!Q(c, u, j - 1) ELSE CA!Qbar(c, u, j - 1)
          /\ back[<<u, j>>] = IF j <= 6 THEN CA!Q(c, u, 12 - j) ELSE CA!Qbar(c, u, 12 - j)
      BY Zenon, <1>2
    <3> QED BY <3>1, <3>2
  <2>4. CASE i <= 6
    <3>1. PICK y \in S : y = CA!Q(c, s, k) /\ CA!Qbar(c, y, k) = s BY CastQs
    <3>2. PICK z \in S : z = CA!Q(c, s, m) /\ CA!Qbar(c, z, m) = s BY CastQs
    <3>3. turn[<<s, i>>] = y /\ back[<<s, i>>] = z BY Zenon, <1>2, <2>2, <2>3, <2>4, <3>1, <3>2
    <3>4. back[<<y, j>>] = CA!Qbar(c, y, k) /\ turn[<<z, j>>] = CA!Qbar(c, z, m)
      BY <2>0, <2>1, <2>4
    <3> QED BY <2>1, <3>1, <3>2, <3>3, <3>4
  <2>5. CASE ~(i <= 6)
    <3>1. PICK y \in S : y = CA!Qbar(c, s, k) /\ CA!Q(c, y, k) = s BY CastQs
    <3>2. PICK z \in S : z = CA!Qbar(c, s, m) /\ CA!Q(c, z, m) = s BY CastQs
    <3>3. turn[<<s, i>>] = y /\ back[<<s, i>>] = z BY Zenon, <1>2, <2>2, <2>3, <2>5, <3>1, <3>2
    <3>4. back[<<y, j>>] = CA!Q(c, y, k) /\ turn[<<z, j>>] = CA!Q(c, z, m)
      BY <2>0, <2>1, <2>5
    <3> QED BY <2>1, <3>1, <3>2, <3>3, <3>4
  <2> QED BY <2>4, <2>5
<1>4. LoopsBack(12, S, turn, back) /\ LoopsBack(12, S, back, turn) BY Zenon, <1>3 DEF LoopsBack, StepsIn
<1>5. PICK v \in S : WordsBE(4, in) = v /\ BytesBE(4, v) = in BY FourWords
<1>6. \A b : /\ CA!Encrypt6(c, b) = BytesBE(4, Iterated(12, WordsBE(4, b), turn))
             /\ CA!Decrypt6(c, b) = BytesBE(4, Iterated(12, WordsBE(4, b), back))
  BY <1>1, WordsCast DEF CA!Encrypt6, CA!Decrypt6
<1>7. 12 \in Nat OBVIOUS
<1>8. PICK e \in S : e = Iterated(12, v, turn) /\ Iterated(12, e, back) = v BY <1>4, <1>7, LoopBack
<1>9. PICK g \in S : g = Iterated(12, v, back) /\ Iterated(12, g, turn) = v BY <1>4, <1>7, LoopBack
<1>10. CA!Encrypt6(c, in) = BytesBE(4, e) /\ CA!Decrypt6(c, in) = BytesBE(4, g) BY <1>5, <1>6, <1>8, <1>9
<1> QED BY <1>5, <1>6, <1>8, <1>9, <1>10, FourWords

----------------------------------------------------------------------------
(* XTEA. *)

Sums == Word(32) \X Word(32) \X Word(32)
LEMMA SumsAre ==
  /\ \A a \in Word(32), b \in Word(32), s \in Word(32) :
       /\ <<a, b, s>> \in Sums /\ <<a, b, s>>[1] = a /\ <<a, b, s>>[2] = b /\ <<a, b, s>>[3] = s
  /\ \A v \in Sums : \E a \in Word(32), b \in Word(32), s \in Word(32) :
       v = <<a, b, s>> /\ v[1] = a /\ v[2] = b /\ v[3] = s
  /\ C64!Summed = Sums
BY Words64 DEF Sums, C64!Summed
LEMMA SumsOf ==
  /\ \A a \in Word(32), b \in Word(32), s \in Word(32) :
       \E v \in Sums : v = <<a, b, s>> /\ v[1] = a /\ v[2] = b /\ v[3] = s
  /\ \A v \in Sums : \E a \in Word(32), b \in Word(32) : v = <<a, b, v[3]>> /\ v[1] = a /\ v[2] = b
<1>1. ASSUME NEW a \in Word(32), NEW b \in Word(32), NEW s \in Word(32)
      PROVE  \E v \in Sums : v = <<a, b, s>> /\ v[1] = a /\ v[2] = b /\ v[3] = s
  <2>1. PICK v : v = <<a, b, s>> BY Zenon
  <2>2. v \in Sums /\ v[1] = a /\ v[2] = b /\ v[3] = s BY <2>1, SumsAre
  <2> QED BY <2>1, <2>2, Zenon
<1>2. ASSUME NEW v \in Sums
      PROVE  \E a \in Word(32), b \in Word(32) : v = <<a, b, v[3]>> /\ v[1] = a /\ v[2] = b
  BY SumsAre
<1> QED BY <1>1, <1>2, Zenon

\* Words of 32 bits.
LEMMA Plus32 ==
  ASSUME NEW x \in Word(32), NEW y \in Word(32)
  PROVE  /\ C64!Plus(32, x, y) \in Word(32) /\ C64!Minus(32, x, y) \in Word(32)
         /\ C64!Xor(x, y) \in Word(32)
         /\ C64!Minus(32, C64!Plus(32, x, y), y) = x /\ C64!Plus(32, C64!Minus(32, x, y), y) = x
<1>1. 32 \in Nat \ {0} OBVIOUS
<1> QED BY <1>1, PlusMinus, Words64, Xor32
LEMMA Shifts32 ==
  ASSUME NEW x \in Word(32)
  PROVE  /\ C64!Shl(32, x, 4) \in Word(32) /\ C64!Shl(32, x, 5) \in Word(32)
         /\ C64!Shr(x, 5) \in Word(32)
<1>1. \A i \in 0 .. 31 : i + 4 < 32 => i + 4 \in 0 .. 31 OBVIOUS
<1>2. \A i \in 0 .. 31 : i + 5 < 32 => i + 5 \in 0 .. 31 OBVIOUS
<1>3. \A i \in 0 .. 31 : i >= 5 => i - 5 \in 0 .. 31 OBVIOUS
<1>4. x \subseteq 0 .. 31 BY DEF Word
<1> QED BY <1>1, <1>2, <1>3, <1>4 DEF C64!Shl, C64!Shr, Word
LEMMA Delta == C64!delta \in Word(32)
<1>1. \A n : C64!OfNum(16, n) \subseteq 0 .. 15 BY DEF C64!OfNum
<1>2. \A i \in 0 .. 15 : i + 16 \in 0 .. 31 /\ i \in 0 .. 31 OBVIOUS
<1>3. \A a, b : C64!Hex32(a, b) \subseteq 0 .. 31 BY <1>1, <1>2 DEF C64!Hex32
<1> QED BY <1>3 DEF C64!delta, Word

\* Two bits index four words.
LEMMA Pick4 ==
  ASSUME NEW x, NEW lo \in Int
  PROVE  C64!Num(C64!Field(x, lo, 2)) + 1 \in 1 .. 4
<1>1. PICK y : y = C64!Field(x, lo, 2) OBVIOUS
<1>2. y \subseteq 0 .. 1
  <2>1. \A i \in x \cap (lo .. lo + 2 - 1) : i - lo \in 0 .. 1 OBVIOUS
  <2> QED BY <1>1, <2>1 DEF C64!Field
<1>3. C64!GetByte(y, 1) = {}
  <2>1. y \cap (8*1 .. 8*1 + 8 - 1) = {} BY <1>2
  <2> QED BY <2>1 DEF C64!GetByte, C64!Field
<1>4. C64!NumByte({}) = 0 BY DEF C64!NumByte
<1>5. C64!NumByte(y) \in 0 .. 3
  <2>1. 2 \notin y /\ 3 \notin y /\ 4 \notin y /\ 5 \notin y /\ 6 \notin y /\ 7 \notin y BY <1>2
  <2>2. C64!NumByte(y) = (IF 0 \in y THEN 1 ELSE 0) + (IF 1 \in y THEN 2 ELSE 0)
    BY <2>1 DEF C64!NumByte
  <2> QED BY <2>2
<1>6. C64!Num(y) = C64!NumByte(y) BY <1>3, <1>4, <1>5 DEF C64!Num
<1> QED BY <1>1, <1>5, <1>6

LEMMA XteaRounds ==
  ASSUME NEW k \in Words(32, 4), NEW v \in Sums
  PROVE  /\ C64!XteaRound(k, v) \in Sums /\ C64!XteaRound(k, v)[3] = C64!Plus(32, v[3], C64!delta)
         /\ C64!XteaUnround(k, C64!XteaRound(k, v)) = v
         /\ C64!XteaUnround(k, v) \in Sums /\ C64!XteaUnround(k, v)[3] = C64!Minus(32, v[3], C64!delta)
         /\ C64!XteaRound(k, C64!XteaUnround(k, v)) = v
<1>1. ASSUME NEW z \in Word(32), NEW sum \in Word(32), NEW x, NEW lo \in Int
      PROVE  C64!XteaMix(k, z, sum, C64!Field(x, lo, 2)) \in Word(32)
  <2>1. PICK q \in 1 .. 4 : q = C64!Num(C64!Field(x, lo, 2)) + 1 BY Pick4
  <2>2. k[q] \in Word(32) BY DEF Words
  <2>3. C64!Plus(32, C64!Xor(C64!Shl(32, z, 4), C64!Shr(z, 5)), z) \in Word(32)
    BY Plus32, Shifts32
  <2>4. C64!Plus(32, sum, k[q]) \in Word(32) BY <2>2, Plus32
  <2> QED BY <2>1, <2>3, <2>4, Plus32 DEF C64!XteaMix
<1>2. PICK a \in Word(32), b \in Word(32), s \in Word(32) : v = <<a, b, s>> /\ v[1] = a /\ v[2] = b /\ v[3] = s
  BY SumsAre
<1>3. 0 \in Int /\ 11 \in Int OBVIOUS
<1>4. C64!XteaRound(k, v) \in Sums /\ C64!XteaRound(k, v)[3] = C64!Plus(32, s, C64!delta)
      /\ C64!XteaUnround(k, C64!XteaRound(k, v)) = v
  <2>1. PICK m \in Word(32) : m = C64!XteaMix(k, b, s, C64!Field(s, 0, 2)) BY <1>1, <1>3
  <2>2. PICK y \in Word(32) : y = C64!Plus(32, a, m) /\ C64!Minus(32, y, m) = a BY Plus32
  <2>3. PICK t \in Word(32) : t = C64!Plus(32, s, C64!delta) /\ C64!Minus(32, t, C64!delta) = s BY Plus32, Delta
  <2>4. PICK q \in Word(32) : q = C64!XteaMix(k, y, t, C64!Field(t, 11, 2)) BY <1>1, <1>3
  <2>5. PICK z \in Word(32) : z = C64!Plus(32, b, q) /\ C64!Minus(32, z, q) = b BY Plus32
  <2>6. C64!XteaRound(k, v) = <<y, z, t>> BY <1>2, <2>1, <2>2, <2>3, <2>4, <2>5 DEF C64!XteaRound
  <2>7. C64!XteaUnround(k, <<y, z, t>>) = <<a, b, s>>
    BY <2>1, <2>2, <2>3, <2>4, <2>5 DEF C64!XteaUnround
  <2> QED BY <1>2, <2>3, <2>6, <2>7, SumsAre
<1>5. C64!XteaUnround(k, v) \in Sums /\ C64!XteaUnround(k, v)[3] = C64!Minus(32, s, C64!delta)
      /\ C64!XteaRound(k, C64!XteaUnround(k, v)) = v
  <2>1. PICK q \in Word(32) : q = C64!XteaMix(k, a, s, C64!Field(s, 11, 2)) BY <1>1, <1>3
  <2>2. PICK z \in Word(32) : z = C64!Minus(32, b, q) /\ C64!Plus(32, z, q) = b BY Plus32
  <2>3. PICK t \in Word(32) : t = C64!Minus(32, s, C64!delta) /\ C64!Plus(32, t, C64!delta) = s BY Plus32, Delta
  <2>4. PICK m \in Word(32) : m = C64!XteaMix(k, z, t, C64!Field(t, 0, 2)) BY <1>1, <1>3
  <2>5. PICK y \in Word(32) : y = C64!Minus(32, a, m) /\ C64!Plus(32, y, m) = a BY Plus32
  <2>6. C64!XteaUnround(k, v) = <<y, z, t>> BY <1>2, <2>1, <2>2, <2>3, <2>4, <2>5 DEF C64!XteaUnround
  <2>7. C64!XteaRound(k, <<y, z, t>>) = <<a, b, s>>
    BY <2>1, <2>2, <2>3, <2>4, <2>5 DEF C64!XteaRound
  <2> QED BY <1>2, <2>3, <2>6, <2>7, SumsAre
<1> QED BY <1>2, <1>4, <1>5

\* The rounds of TEA and XTEA between two sums.
SumsUp(n, turn, back) ==
    /\ LoopsBack(n, Sums, turn, back) /\ LoopsBack(n, Sums, back, turn)
    /\ \A i \in 1 .. n : \A v \in Sums : /\ turn[<<v, i>>][3] = C64!Plus(32, v[3], C64!delta)
                                         /\ back[<<v, i>>][3] = C64!Minus(32, v[3], C64!delta)
LEMMA SumsEnd ==
  ASSUME NEW n \in Nat, NEW turn, NEW back, SumsUp(n, turn, back), NEW v \in Sums
  PROVE  /\ C64!Deltas(n) \in Word(32) /\ C64!Zero \in Word(32)
         /\ v[3] = C64!Zero => Iterated(n, v, turn)[3] = C64!Deltas(n)
         /\ v[3] = C64!Deltas(n) => Iterated(n, v, back)[3] = C64!Zero
<1>1. PICK up, down, f :
        /\ up = [t \in Word(32) \X (1 .. n) |-> C64!Plus(32, t[1], C64!delta)]
        /\ down = [t \in Word(32) \X (1 .. n) |-> C64!Minus(32, t[1], C64!delta)]
        /\ f = [u \in Sums |-> u[3]]
  BY Zenon
<1>2. ASSUME NEW s \in Word(32), NEW i \in 1 .. n
      PROVE  /\ up[<<s, i>>] = C64!Plus(32, s, C64!delta) /\ up[<<s, i>>] \in Word(32)
             /\ down[<<s, i>>] = C64!Minus(32, s, C64!delta) /\ down[<<s, i>>] \in Word(32)
             /\ C64!Minus(32, up[<<s, i>>], C64!delta) = s
  <2>1. <<s, i>> \in Word(32) \X (1 .. n) OBVIOUS
  <2>2. up[<<s, i>>] = C64!Plus(32, s, C64!delta) /\ down[<<s, i>>] = C64!Minus(32, s, C64!delta)
    BY <1>1, <2>1
  <2> QED BY <2>2, Plus32, Delta
<1>3. StepsIn(n, Word(32), up) /\ StepsIn(n, Word(32), down) BY <1>2 DEF StepsIn
<1>4. LoopsBack(n, Word(32), up, down)
  <2>1. ASSUME NEW i \in 1 .. n, NEW s \in Word(32) PROVE down[<<up[<<s, i>>], n + 1 - i>>] = s
    <3>1. n + 1 - i \in 1 .. n OBVIOUS
    <3>2. PICK u \in Word(32) : u = up[<<s, i>>] /\ C64!Minus(32, u, C64!delta) = s BY <1>2
    <3> QED BY <1>2, <3>1, <3>2
  <2> QED BY <1>3, <2>1 DEF LoopsBack
<1>5. f \in [Sums -> Word(32)] /\ \A u \in Sums : f[u] = u[3]
  <2>1. \A u \in Sums : u[3] \in Word(32) BY SumsAre
  <2> QED BY <1>1, <2>1
<1>6. StepsIn(n, Sums, turn) /\ StepsIn(n, Sums, back) BY DEF SumsUp, LoopsBack
<1>7. ASSUME NEW i \in 1 .. n, NEW s \in Sums
      PROVE  f[turn[<<s, i>>]] = up[<<f[s], i>>] /\ f[back[<<s, i>>]] = down[<<f[s], i>>]
  <2>1. turn[<<s, i>>] \in Sums /\ back[<<s, i>>] \in Sums BY <1>6 DEF StepsIn
  <2>2. s[3] \in Word(32) BY SumsAre
  <2>3. /\ turn[<<s, i>>][3] = C64!Plus(32, s[3], C64!delta)
        /\ back[<<s, i>>][3] = C64!Minus(32, s[3], C64!delta)
    BY DEF SumsUp
  <2> QED BY <1>2, <1>5, <2>1, <2>2, <2>3
<1>8. f[Iterated(n, v, turn)] = Iterated(n, f[v], up) /\ Iterated(n, v, turn) \in Sums
  <2>1. \A i \in 1 .. n : \A s \in Sums : f[turn[<<s, i>>]] = up[<<f[s], i>>] BY <1>7, Zenon
  <2> QED BY <1>3, <1>5, <1>6, <2>1, Followed
<1>9. f[Iterated(n, v, back)] = Iterated(n, f[v], down) /\ Iterated(n, v, back) \in Sums
  <2>1. \A i \in 1 .. n : \A s \in Sums : f[back[<<s, i>>]] = down[<<f[s], i>>] BY <1>7, Zenon
  <2> QED BY <1>3, <1>5, <1>6, <2>1, Followed
<1>10. C64!Zero \in Word(32) BY DEF C64!Zero, Word
<1>11. C64!Deltas(n) = Iterated(n, C64!Zero, up) BY <1>1, Words64 DEF C64!Deltas
<1>12. C64!Deltas(n) \in Word(32) /\ Iterated(n, C64!Deltas(n), down) = C64!Zero
  BY <1>4, <1>10, <1>11, LoopBack
<1> QED BY <1>5, <1>8, <1>9, <1>10, <1>11, <1>12

LEMMA RoundsInverse ==
  ASSUME NEW n \in Nat, NEW turn, NEW back, SumsUp(n, turn, back), NEW in \in Block8
  PROVE  /\ C64!Rounds(n, in, C64!Zero, turn) \in Block8
         /\ C64!Rounds(n, C64!Rounds(n, in, C64!Zero, turn), C64!Deltas(n), back) = in
         /\ C64!Rounds(n, in, C64!Deltas(n), back) \in Block8
         /\ C64!Rounds(n, C64!Rounds(n, in, C64!Deltas(n), back), C64!Zero, turn) = in
<1>1. PICK a \in Word(32), b \in Word(32) : WordsBE(4, in) = <<a, b>> /\ BytesBE(4, <<a, b>>) = in
  BY WordsOf8, PairsAre DEF TwoWordsAre, Block8
<1>2. ASSUME NEW x \in Word(32), NEW y \in Word(32)
      PROVE  BytesBE(4, <<x, y>>) \in Block8 /\ WordsBE(4, BytesBE(4, <<x, y>>)) = <<x, y>>
  <2>1. PICK u \in WordPairs(32) : u = <<x, y>> BY Zenon, PairsAre
  <2>2. BytesBE(4, u) \in Block8 /\ WordsBE(4, BytesBE(4, u)) = u BY WordsOf8 DEF TwoWordsAre, Block8
  <2> QED BY <2>1, <2>2
<1>3. PICK D \in Word(32), Z \in Word(32) : D = C64!Deltas(n) /\ Z = C64!Zero
  <2>1. {} \in Word(32) BY DEF Word
  <2>2. PICK u \in Sums : u = <<{}, {}, {}>> BY <2>1, SumsOf
  <2>3. C64!Deltas(n) \in Word(32) /\ C64!Zero \in Word(32) BY SumsEnd
  <2> QED BY <2>3
<1>4. \A c, s, g, x, y : WordsBE(4, c) = <<x, y>> =>
        C64!Rounds(n, c, s, g) = BytesBE(4, <<Iterated(n, <<x, y, s>>, g)[1], Iterated(n, <<x, y, s>>, g)[2]>>)
  BY Words64 DEF C64!Rounds
<1>5. LoopsBack(n, Sums, turn, back) /\ LoopsBack(n, Sums, back, turn) BY DEF SumsUp
<1>6. C64!Rounds(n, in, Z, turn) \in Block8 /\ C64!Rounds(n, C64!Rounds(n, in, Z, turn), D, back) = in
  <2>1. PICK v \in Sums : v = <<a, b, Z>> /\ v[1] = a /\ v[2] = b /\ v[3] = Z BY SumsOf
  <2>2. PICK w \in Sums : w = Iterated(n, v, turn) /\ Iterated(n, w, back) = v /\ w[3] = D
    BY <1>3, <1>5, <2>1, LoopBack, SumsEnd
  <2>3. PICK x \in Word(32), y \in Word(32) : w = <<x, y, D>> /\ w[1] = x /\ w[2] = y
    <3>1. PICK x \in Word(32), y \in Word(32) : w = <<x, y, w[3]>> /\ w[1] = x /\ w[2] = y BY SumsOf
    <3>2. w[3] = D BY <2>2
    <3> QED BY <3>1, <3>2
  <2>4. C64!Rounds(n, in, Z, turn) = BytesBE(4, <<x, y>>) BY <1>1, <1>4, <2>1, <2>2, <2>3
  <2>5. C64!Rounds(n, BytesBE(4, <<x, y>>), D, back) = BytesBE(4, <<a, b>>) BY <1>2, <1>4, <2>1, <2>2, <2>3
  <2> QED BY <1>1, <1>2, <2>4, <2>5
<1>7. C64!Rounds(n, in, D, back) \in Block8 /\ C64!Rounds(n, C64!Rounds(n, in, D, back), Z, turn) = in
  <2>1. PICK v \in Sums : v = <<a, b, D>> /\ v[1] = a /\ v[2] = b /\ v[3] = D BY SumsOf
  <2>2. PICK w \in Sums : w = Iterated(n, v, back) /\ Iterated(n, w, turn) = v /\ w[3] = Z
    BY <1>3, <1>5, <2>1, LoopBack, SumsEnd
  <2>3. PICK x \in Word(32), y \in Word(32) : w = <<x, y, Z>> /\ w[1] = x /\ w[2] = y
    <3>1. PICK x \in Word(32), y \in Word(32) : w = <<x, y, w[3]>> /\ w[1] = x /\ w[2] = y BY SumsOf
    <3>2. w[3] = Z BY <2>2
    <3> QED BY <3>1, <3>2
  <2>4. C64!Rounds(n, in, D, back) = BytesBE(4, <<x, y>>) BY <1>1, <1>4, <2>1, <2>2, <2>3
  <2>5. C64!Rounds(n, BytesBE(4, <<x, y>>), Z, turn) = BytesBE(4, <<a, b>>) BY <1>2, <1>4, <2>1, <2>2, <2>3
  <2> QED BY <1>1, <1>2, <2>4, <2>5
<1> QED BY <1>3, <1>6, <1>7

LEMMA XteaInverse ==
  ASSUME NEW c, c.k \in Words(32, 4), c.rounds \in Nat, NEW in \in Block8
  PROVE  /\ C64!XteaEncrypt(c, in) \in Block8 /\ C64!XteaDecrypt(c, C64!XteaEncrypt(c, in)) = in
         /\ C64!XteaDecrypt(c, in) \in Block8 /\ C64!XteaEncrypt(c, C64!XteaDecrypt(c, in)) = in
<1>1. PICK k \in Words(32, 4), n \in Nat : k = c.k /\ n = c.rounds OBVIOUS
<1>2. PICK turn, back :
        /\ turn = [t \in Sums \X (1 .. n) |-> C64!XteaRound(k, t[1])]
        /\ back = [t \in Sums \X (1 .. n) |-> C64!XteaUnround(k, t[1])]
  BY Zenon
<1>3. ASSUME NEW s \in Sums, NEW i \in 1 .. n
      PROVE  turn[<<s, i>>] = C64!XteaRound(k, s) /\ back[<<s, i>>] = C64!XteaUnround(k, s)
  <2>1. <<s, i>> \in Sums \X (1 .. n) OBVIOUS
  <2> QED BY <1>2, <2>1
<1>4. ASSUME NEW s \in Sums, NEW i \in 1 .. n
      PROVE  /\ turn[<<s, i>>] \in Sums /\ back[<<s, i>>] \in Sums
             /\ back[<<turn[<<s, i>>], n + 1 - i>>] = s /\ turn[<<back[<<s, i>>], n + 1 - i>>] = s
             /\ turn[<<s, i>>][3] = C64!Plus(32, s[3], C64!delta)
             /\ back[<<s, i>>][3] = C64!Minus(32, s[3], C64!delta)
  <2>1. n + 1 - i \in 1 .. n OBVIOUS
  <2>2. PICK y \in Sums : y = C64!XteaRound(k, s) /\ C64!XteaUnround(k, y) = s
                          /\ y[3] = C64!Plus(32, s[3], C64!delta)
    BY XteaRounds
  <2>3. PICK z \in Sums : z = C64!XteaUnround(k, s) /\ C64!XteaRound(k, z) = s
                          /\ z[3] = C64!Minus(32, s[3], C64!delta)
    BY XteaRounds
  <2> QED BY <1>3, <2>1, <2>2, <2>3
<1>5. SumsUp(n, turn, back) BY Zenon, <1>4 DEF SumsUp, LoopsBack, StepsIn
<1>6. \A b : /\ C64!XteaEncrypt(c, b) = C64!Rounds(n, b, C64!Zero, turn)
             /\ C64!XteaDecrypt(c, b) = C64!Rounds(n, b, C64!Deltas(n), back)
  BY <1>1, <1>2, SumsAre DEF C64!XteaEncrypt, C64!XteaDecrypt
<1> QED BY <1>5, <1>6, RoundsInverse

----------------------------------------------------------------------------
(* TEA: thirty-two times delta is delta, shifted by five. *)

LEMMA ThirtyTwo == C64!Deltas(32) = C64!Shl(32, C64!delta, 5)
<1>1. PICK d \in Word(32) : d = C64!delta BY Delta
<1>2. PICK w \in Nat \ {0}, n \in Nat : w = 32 /\ n = 32 OBVIOUS
<1>3. PICK up : up = [t \in Word(32) \X (1 .. n) |-> C64!Plus(32, t[1], C64!delta)] BY Zenon
<1>4. ASSUME NEW s \in Word(32), NEW i \in 1 .. n
      PROVE  up[<<s, i>>] = Plus(32, s, d) /\ up[<<s, i>>] \in Word(32)
  <2>1. <<s, i>> \in Word(32) \X (1 .. n) OBVIOUS
  <2>2. up[<<s, i>>] = C64!Plus(32, s, C64!delta) BY <1>3, <2>1
  <2> QED BY <1>1, <2>2, Plus32, Words64
<1>5. StepsIn(n, Word(32), up) BY <1>4 DEF StepsIn
<1>6. C64!Zero \in Word(32) /\ C64!Zero = {} BY DEF C64!Zero, Word
<1>7. PICK f \in [0 .. n -> Word(32)] : Recursive(f, n, C64!Zero, up) /\ Iterated(n, C64!Zero, up) = f[n]
  BY <1>5, <1>6, IteratedIs
<1>8. C64!Deltas(n) = f[n] BY <1>2, <1>3, <1>7, Words64 DEF C64!Deltas
<1>9. f[0] = {} /\ \A i \in 1 .. n : f[i] = Plus(32, f[i-1], d)
  <2>1. f[0] = {} BY <1>6, <1>7 DEF Recursive
  <2>2. ASSUME NEW i \in 1 .. n PROVE f[i] = Plus(32, f[i-1], d)
    <3>1. f[i-1] \in Word(32) OBVIOUS
    <3>2. f[i] = up[<<f[i-1], i>>] BY <1>7 DEF Recursive
    <3> QED BY <1>4, <3>1, <3>2
  <2> QED BY <2>1, <2>2
<1>10. \A i \in 0 .. n, j \in 0 .. n : i + j \in 0 .. n => f[i + j] = Plus(32, f[i], f[j])
  BY Zenon, <1>9, Multiples
<1>11. ASSUME NEW i \in 0 .. n, NEW j \in 0 .. n, i + i = j PROVE f[j] = Shl(32, f[i], 1)
  <2>1. f[j] = Plus(32, f[i], f[i]) BY <1>10, <1>11
  <2>2. f[i] \in Word(w) BY <1>2
  <2>3. Plus(w, f[i], f[i]) = Shl(w, f[i], 1) BY <2>2, PlusZero
  <2> QED BY <1>2, <2>1, <2>3
<1>12. f[1] = d
  <2>1. 1 \in 1 .. n /\ 1 - 1 = 0 BY <1>2
  <2>2. f[1] = Plus(32, {}, d) BY Zenon, <1>9, <2>1
  <2>3. {} \in Word(w) /\ d \in Word(w) BY <1>2 DEF Word
  <2>4. Plus(w, {}, d) = Plus(w, d, {}) /\ Plus(w, d, {}) = d BY <2>3, PlusMinus, PlusZero
  <2> QED BY <1>2, <2>2, <2>4
<1>13. f[2] = Shl(32, d, 1)
  <2>1. 1 \in 0 .. n /\ 2 \in 0 .. n /\ 1 + 1 = 2 BY <1>2
  <2> QED BY <1>11, <1>12, <2>1
<1>14. f[4] = Shl(32, d, 2)
  <2>1. 2 \in 0 .. n /\ 4 \in 0 .. n /\ 2 + 2 = 4 /\ 1 + 1 = 2 /\ 1 \in Nat BY <1>2
  <2> QED BY <1>2, <1>11, <1>13, <2>1, ShlShl
<1>15. f[8] = Shl(32, d, 3)
  <2>1. 4 \in 0 .. n /\ 8 \in 0 .. n /\ 4 + 4 = 8 /\ 2 + 1 = 3 /\ 2 \in Nat BY <1>2
  <2> QED BY <1>2, <1>11, <1>14, <2>1, ShlShl
<1>16. f[16] = Shl(32, d, 4)
  <2>1. 8 \in 0 .. n /\ 16 \in 0 .. n /\ 8 + 8 = 16 /\ 3 + 1 = 4 /\ 3 \in Nat BY <1>2
  <2> QED BY <1>2, <1>11, <1>15, <2>1, ShlShl
<1>17. f[32] = Shl(32, d, 5)
  <2>1. 16 \in 0 .. n /\ 32 \in 0 .. n /\ 16 + 16 = 32 /\ 4 + 1 = 5 /\ 4 \in Nat BY <1>2
  <2> QED BY <1>2, <1>11, <1>16, <2>1, ShlShl
<1>18. C64!Shl(32, d, 5) = Shl(32, d, 5) BY DEF C64!Shl, Shl
<1> QED BY <1>1, <1>2, <1>8, <1>17, <1>18

LEMMA TeaRounds ==
  ASSUME NEW k \in Words(32, 4), NEW v \in Sums
  PROVE  /\ C64!TeaRound(k, v) \in Sums /\ C64!TeaRound(k, v)[3] = C64!Plus(32, v[3], C64!delta)
         /\ C64!TeaUnround(k, C64!TeaRound(k, v)) = v
         /\ C64!TeaUnround(k, v) \in Sums /\ C64!TeaUnround(k, v)[3] = C64!Minus(32, v[3], C64!delta)
         /\ C64!TeaRound(k, C64!TeaUnround(k, v)) = v
<1>1. ASSUME NEW l \in Word(32), NEW sum \in Word(32), NEW i \in {1, 3}
      PROVE  C64!TeaMix(k, l, sum, i) \in Word(32)
  <2>1. k[i] \in Word(32) /\ k[i+1] \in Word(32)
    <3>1. i \in 1 .. 4 /\ i + 1 \in 1 .. 4 OBVIOUS
    <3> QED BY <3>1 DEF Words
  <2>2. /\ C64!Plus(32, C64!Shl(32, l, 4), k[i]) \in Word(32)
        /\ C64!Plus(32, l, sum) \in Word(32)
        /\ C64!Plus(32, C64!Shr(l, 5), k[i+1]) \in Word(32)
    BY <2>1, Plus32, Shifts32
  <2>3. \A a \in Word(32), b \in Word(32), c \in Word(32) : C64!Xor3(a, b, c) \in Word(32)
    BY DEF C64!Xor3, C64!Xor, Word
  <2> QED BY <2>2, <2>3 DEF C64!TeaMix
<1>2. PICK a \in Word(32), b \in Word(32), s \in Word(32) : v = <<a, b, s>> /\ v[1] = a /\ v[2] = b /\ v[3] = s
  BY SumsAre
<1>3. 1 \in {1, 3} /\ 3 \in {1, 3} OBVIOUS
<1>4. C64!TeaRound(k, v) \in Sums /\ C64!TeaRound(k, v)[3] = C64!Plus(32, s, C64!delta)
      /\ C64!TeaUnround(k, C64!TeaRound(k, v)) = v
  <2>1. PICK t \in Word(32) : t = C64!Plus(32, s, C64!delta) /\ C64!Minus(32, t, C64!delta) = s BY Plus32, Delta
  <2>2. PICK m \in Word(32) : m = C64!TeaMix(k, b, t, 1) BY <1>1, <1>3
  <2>3. PICK y \in Word(32) : y = C64!Plus(32, a, m) /\ C64!Minus(32, y, m) = a BY Plus32
  <2>4. PICK q \in Word(32) : q = C64!TeaMix(k, y, t, 3) BY <1>1, <1>3
  <2>5. PICK z \in Word(32) : z = C64!Plus(32, b, q) /\ C64!Minus(32, z, q) = b BY Plus32
  <2>6. C64!TeaRound(k, v) = <<y, z, t>> BY <1>2, <2>1, <2>2, <2>3, <2>4, <2>5 DEF C64!TeaRound
  <2>7. C64!TeaUnround(k, <<y, z, t>>) = <<a, b, s>>
    BY <2>1, <2>2, <2>3, <2>4, <2>5 DEF C64!TeaUnround
  <2> QED BY <1>2, <2>1, <2>6, <2>7, SumsAre
<1>5. C64!TeaUnround(k, v) \in Sums /\ C64!TeaUnround(k, v)[3] = C64!Minus(32, s, C64!delta)
      /\ C64!TeaRound(k, C64!TeaUnround(k, v)) = v
  <2>1. PICK q \in Word(32) : q = C64!TeaMix(k, a, s, 3) BY <1>1, <1>3
  <2>2. PICK z \in Word(32) : z = C64!Minus(32, b, q) /\ C64!Plus(32, z, q) = b BY Plus32
  <2>3. PICK m \in Word(32) : m = C64!TeaMix(k, z, s, 1) BY <1>1, <1>3
  <2>4. PICK y \in Word(32) : y = C64!Minus(32, a, m) /\ C64!Plus(32, y, m) = a BY Plus32
  <2>5. PICK t \in Word(32) : t = C64!Minus(32, s, C64!delta) /\ C64!Plus(32, t, C64!delta) = s BY Plus32, Delta
  <2>6. C64!TeaUnround(k, v) = <<y, z, t>> BY <1>2, <2>1, <2>2, <2>3, <2>4, <2>5 DEF C64!TeaUnround
  <2>7. C64!TeaRound(k, <<y, z, t>>) = <<a, b, s>>
    BY <2>1, <2>2, <2>3, <2>4, <2>5 DEF C64!TeaRound
  <2> QED BY <1>2, <2>5, <2>6, <2>7, SumsAre
<1> QED BY <1>2, <1>4, <1>5

LEMMA TeaInverse ==
  ASSUME NEW k \in Words(32, 4), NEW in \in Block8
  PROVE  /\ C64!TeaEncrypt(k, in) \in Block8 /\ C64!TeaDecrypt(k, C64!TeaEncrypt(k, in)) = in
         /\ C64!TeaDecrypt(k, in) \in Block8 /\ C64!TeaEncrypt(k, C64!TeaDecrypt(k, in)) = in
<1>1. PICK n \in Nat : n = 32 OBVIOUS
<1>2. PICK turn, back :
        /\ turn = [t \in Sums \X (1 .. n) |-> C64!TeaRound(k, t[1])]
        /\ back = [t \in Sums \X (1 .. n) |-> C64!TeaUnround(k, t[1])]
  BY Zenon
<1>3. ASSUME NEW s \in Sums, NEW i \in 1 .. n
      PROVE  turn[<<s, i>>] = C64!TeaRound(k, s) /\ back[<<s, i>>] = C64!TeaUnround(k, s)
  <2>1. <<s, i>> \in Sums \X (1 .. n) OBVIOUS
  <2> QED BY <1>2, <2>1
<1>4. ASSUME NEW s \in Sums, NEW i \in 1 .. n
      PROVE  /\ turn[<<s, i>>] \in Sums /\ back[<<s, i>>] \in Sums
             /\ back[<<turn[<<s, i>>], n + 1 - i>>] = s /\ turn[<<back[<<s, i>>], n + 1 - i>>] = s
             /\ turn[<<s, i>>][3] = C64!Plus(32, s[3], C64!delta)
             /\ back[<<s, i>>][3] = C64!Minus(32, s[3], C64!delta)
  <2>1. n + 1 - i \in 1 .. n OBVIOUS
  <2>2. PICK y \in Sums : y = C64!TeaRound(k, s) /\ C64!TeaUnround(k, y) = s
                          /\ y[3] = C64!Plus(32, s[3], C64!delta)
    BY TeaRounds
  <2>3. PICK z \in Sums : z = C64!TeaUnround(k, s) /\ C64!TeaRound(k, z) = s
                          /\ z[3] = C64!Minus(32, s[3], C64!delta)
    BY TeaRounds
  <2> QED BY <1>3, <2>1, <2>2, <2>3
<1>5. SumsUp(n, turn, back) BY Zenon, <1>4 DEF SumsUp, LoopsBack, StepsIn
<1>6. \A b : /\ C64!TeaEncrypt(k, b) = C64!Rounds(n, b, C64!Zero, turn)
             /\ C64!TeaDecrypt(k, b) = C64!Rounds(n, b, C64!Deltas(n), back)
  BY <1>1, <1>2, SumsAre, ThirtyTwo DEF C64!TeaEncrypt, C64!TeaDecrypt
<1> QED BY <1>5, <1>6, RoundsInverse

----------------------------------------------------------------------------
(* Blowfish. *)

PArrays == [0 .. 17 -> Word(32)]
SBoxes == [0 .. 1023 -> Word(32)]
\* The subkeys of the two directions.
Backwards(p, pd) == \A j \in 0 .. 17 : pd[17 - j] = p[j]

LEMMA NumByteIs == \A x : C64!NumByte(x) \in 0 .. 255
<1> TAKE x
<1>1. PICK a \in 0 .. 1, b \in 0 .. 1, c \in 0 .. 1, d \in 0 .. 1, e \in 0 .. 1, g \in 0 .. 1, h \in 0 .. 1, i \in 0 .. 1 :
        C64!NumByte(x) = a + 2*b + 4*c + 8*d + 16*e + 32*g + 64*h + 128*i
  <2>1. PICK a \in 0 .. 1 : (IF 0 \in x THEN 1 ELSE 0) = a OBVIOUS
  <2>2. PICK b \in 0 .. 1 : (IF 1 \in x THEN 2 ELSE 0) = 2*b
    <3>1. 2*0 = 0 /\ 2*1 = 2 /\ 0 \in 0 .. 1 /\ 1 \in 0 .. 1 OBVIOUS
    <3> QED BY <3>1
  <2>3. PICK c \in 0 .. 1 : (IF 2 \in x THEN 4 ELSE 0) = 4*c
    <3>1. 4*0 = 0 /\ 4*1 = 4 /\ 0 \in 0 .. 1 /\ 1 \in 0 .. 1 OBVIOUS
    <3> QED BY <3>1
  <2>4. PICK d \in 0 .. 1 : (IF 3 \in x THEN 8 ELSE 0) = 8*d
    <3>1. 8*0 = 0 /\ 8*1 = 8 /\ 0 \in 0 .. 1 /\ 1 \in 0 .. 1 OBVIOUS
    <3> QED BY <3>1
  <2>5. PICK e \in 0 .. 1 : (IF 4 \in x THEN 16 ELSE 0) = 16*e
    <3>1. 16*0 = 0 /\ 16*1 = 16 /\ 0 \in 0 .. 1 /\ 1 \in 0 .. 1 OBVIOUS
    <3> QED BY <3>1
  <2>6. PICK g \in 0 .. 1 : (IF 5 \in x THEN 32 ELSE 0) = 32*g
    <3>1. 32*0 = 0 /\ 32*1 = 32 /\ 0 \in 0 .. 1 /\ 1 \in 0 .. 1 OBVIOUS
    <3> QED BY <3>1
  <2>7. PICK h \in 0 .. 1 : (IF 6 \in x THEN 64 ELSE 0) = 64*h
    <3>1. 64*0 = 0 /\ 64*1 = 64 /\ 0 \in 0 .. 1 /\ 1 \in 0 .. 1 OBVIOUS
    <3> QED BY <3>1
  <2>8. PICK i \in 0 .. 1 : (IF 7 \in x THEN 128 ELSE 0) = 128*i
    <3>1. 128*0 = 0 /\ 128*1 = 128 /\ 0 \in 0 .. 1 /\ 1 \in 0 .. 1 OBVIOUS
    <3> QED BY <3>1
  <2> QED BY <2>1, <2>2, <2>3, <2>4, <2>5, <2>6, <2>7, <2>8 DEF C64!NumByte
<1> QED BY <1>1

LEMMA BlowfishF == \A s \in SBoxes : \A x : C64!f(s, x) \in Word(32)
<1> SUFFICES ASSUME NEW s \in SBoxes, NEW x PROVE C64!f(s, x) \in Word(32)
  OBVIOUS
<1>1. PICK g : g = [n \in 0 .. 3 |-> s[256*n + C64!NumByte(C64!GetByte(x, 3 - n))]] BY Zenon
<1>2. \A n \in 0 .. 3 : g[n] \in Word(32)
  <2> TAKE n \in 0 .. 3
  <2>1. PICK b \in 0 .. 255 : b = C64!NumByte(C64!GetByte(x, 3 - n)) BY NumByteIs
  <2>2. 256*n + b \in 0 .. 1023 OBVIOUS
  <2>3. g[n] = s[256*n + b] BY <1>1, <2>1
  <2> QED BY <2>2, <2>3 DEF SBoxes
<1>3. PICK a \in Word(32), b \in Word(32), c \in Word(32), d \in Word(32) :
        g[0] = a /\ g[1] = b /\ g[2] = c /\ g[3] = d
  <2>1. 0 \in 0 .. 3 /\ 1 \in 0 .. 3 /\ 2 \in 0 .. 3 /\ 3 \in 0 .. 3 OBVIOUS
  <2> QED BY <1>2, <2>1
<1>4. C64!Mixed(g) \in Word(32) BY <1>3, Plus32 DEF C64!Mixed
<1> QED BY <1>1, <1>4 DEF C64!f

\* The halves of a block take their subkeys.
LEMMA Keys2 ==
  ASSUME NEW p \in PArrays, NEW i \in 0 .. 8, NEW a \in Word(32), NEW b \in Word(32)
  PROVE  \E u \in Word(32), v \in Word(32), k \in Word(32), l \in Word(32) :
           /\ u = Xor(a, k) /\ v = Xor(b, l) /\ k = p[2*i] /\ l = p[2*i + 1]
           /\ C64!AddKeys(p, i, <<a, b>>) = <<u, v>> /\ Xor(u, k) = a /\ Xor(v, l) = b
<1>1. 2*i \in 0 .. 17 /\ 2*i + 1 \in 0 .. 17 OBVIOUS
<1>2. PICK k \in Word(32), l \in Word(32) : k = p[2*i] /\ l = p[2*i + 1] BY <1>1 DEF PArrays
<1>3. PICK u \in Word(32), v \in Word(32) : u = Xor(a, k) /\ v = Xor(b, l) /\ Xor(u, k) = a /\ Xor(v, l) = b
  BY Xor32, XorTwice
<1>4. C64!AddKeys(p, i, <<a, b>>) = <<u, v>> BY <1>2, <1>3, Words64 DEF C64!AddKeys
<1> QED BY <1>2, <1>3, <1>4

LEMMA BlowfishTurns ==
  ASSUME NEW s \in SBoxes, NEW p \in PArrays, NEW pd \in PArrays, Backwards(p, pd),
         NEW x \in WordPairs(32)
  PROVE  /\ \A i \in 0 .. 7 : C64!BlowfishTurn(s, p, i, x) \in WordPairs(32)
         /\ \A i \in 0 .. 8 : /\ C64!AddKeys(p, i, x) \in WordPairs(32)
                              /\ C64!AddKeys(pd, 8 - i, C64!Swap(C64!AddKeys(p, i, x))) = C64!Swap(x)
         /\ \A i \in 1 .. 8 :
              C64!BlowfishTurn(s, pd, 8 - i, C64!Swap(C64!AddKeys(p, i, C64!BlowfishTurn(s, p, i - 1, x))))
                  = C64!Swap(C64!AddKeys(p, i - 1, x))
<1>1. PICK x1 \in Word(32), x2 \in Word(32) : x = <<x1, x2>> BY PairsAre
<1>2. ASSUME NEW i \in 0 .. 8, NEW y \in WordPairs(32)
      PROVE  /\ C64!AddKeys(p, i, y) \in WordPairs(32)
             /\ C64!AddKeys(pd, 8 - i, C64!Swap(C64!AddKeys(p, i, y))) = C64!Swap(y)
  <2>1. PICK a \in Word(32), b \in Word(32) : y = <<a, b>> BY PairsAre
  <2>2. PICK u \in Word(32), v \in Word(32), k \in Word(32), l \in Word(32) :
          /\ u = Xor(a, k) /\ v = Xor(b, l) /\ k = p[2*i] /\ l = p[2*i + 1]
          /\ C64!AddKeys(p, i, <<a, b>>) = <<u, v>> /\ Xor(u, k) = a /\ Xor(v, l) = b
    BY Keys2
  <2>3. 2*i \in 0 .. 17 /\ 2*i + 1 \in 0 .. 17 /\ 17 - 2*i = 2*(8 - i) + 1 /\ 17 - (2*i + 1) = 2*(8 - i) OBVIOUS
  <2>4. pd[2*(8 - i)] = l /\ pd[2*(8 - i) + 1] = k BY <2>2, <2>3 DEF Backwards
  <2>5. C64!Swap(<<u, v>>) = <<v, u>> /\ C64!Swap(y) = <<b, a>> BY <2>1 DEF C64!Swap
  <2>6. C64!AddKeys(pd, 8 - i, <<v, u>>) = <<b, a>> BY <2>2, <2>4, Words64 DEF C64!AddKeys
  <2>7. <<u, v>> \in WordPairs(32) BY PairsAre
  <2> QED BY <2>1, <2>2, <2>5, <2>6, <2>7
<1>3. ASSUME NEW y \in WordPairs(32)
      PROVE  /\ C64!BlowfishLeft(s, C64!BlowfishRight(s, y)) \in WordPairs(32)
             /\ C64!BlowfishLeft(s, C64!BlowfishRight(s, C64!Swap(C64!BlowfishLeft(s, C64!BlowfishRight(s, y)))))
                  = C64!Swap(y)
  <2>1. PICK a \in Word(32), b \in Word(32) : y = <<a, b>> BY PairsAre
  <2>2. PICK q \in Word(32) : q = C64!f(s, a) BY BlowfishF
  <2>3. PICK d \in Word(32) : d = Xor(b, q) /\ Xor(d, q) = b BY Xor32, XorTwice
  <2>4. PICK r \in Word(32) : r = C64!f(s, d) BY BlowfishF
  <2>5. PICK c \in Word(32) : c = Xor(a, r) /\ Xor(c, r) = a BY Xor32, XorTwice
  <2>6. C64!BlowfishRight(s, y) = <<a, d>> BY <2>1, <2>2, <2>3, Words64 DEF C64!BlowfishRight
  <2>7. C64!BlowfishLeft(s, <<a, d>>) = <<c, d>> BY <2>4, <2>5, Words64 DEF C64!BlowfishLeft
  <2>8. C64!Swap(<<c, d>>) = <<d, c>> /\ C64!Swap(y) = <<b, a>> BY <2>1 DEF C64!Swap
  <2>9. C64!BlowfishRight(s, <<d, c>>) = <<d, a>> BY <2>4, <2>5, Words64 DEF C64!BlowfishRight
  <2>10. C64!BlowfishLeft(s, <<d, a>>) = <<b, a>> BY <2>2, <2>3, Words64 DEF C64!BlowfishLeft
  <2> QED BY <2>6, <2>7, <2>8, <2>9, <2>10, PairsAre
<1>4. ASSUME NEW i \in 0 .. 7 PROVE C64!BlowfishTurn(s, p, i, x) \in WordPairs(32)
  <2>1. i \in 0 .. 8 OBVIOUS
  <2> QED BY <1>2, <1>3, <2>1 DEF C64!BlowfishTurn
<1>5. ASSUME NEW i \in 1 .. 8
      PROVE  C64!BlowfishTurn(s, pd, 8 - i, C64!Swap(C64!AddKeys(p, i, C64!BlowfishTurn(s, p, i - 1, x))))
                 = C64!Swap(C64!AddKeys(p, i - 1, x))
  <2>1. i - 1 \in 0 .. 8 /\ i \in 0 .. 8 OBVIOUS
  <2>2. PICK y \in WordPairs(32) : y = C64!AddKeys(p, i - 1, x) BY <1>2, <2>1
  <2>3. PICK z \in WordPairs(32) :
          /\ z = C64!BlowfishLeft(s, C64!BlowfishRight(s, y))
          /\ C64!BlowfishLeft(s, C64!BlowfishRight(s, C64!Swap(z))) = C64!Swap(y)
    BY <1>3
  <2>4. C64!BlowfishTurn(s, p, i - 1, x) = z BY <2>2, <2>3 DEF C64!BlowfishTurn
  <2>5. C64!AddKeys(pd, 8 - i, C64!Swap(C64!AddKeys(p, i, z))) = C64!Swap(z) BY <1>2, <2>1
  <2> QED BY <2>2, <2>3, <2>4, <2>5 DEF C64!BlowfishTurn
<1> QED BY <1>2, <1>4, <1>5

LEMMA BlowfishCore ==
  ASSUME NEW s \in SBoxes, NEW p \in PArrays, NEW pd \in PArrays, Backwards(p, pd),
         NEW x \in WordPairs(32)
  PROVE  /\ C64!MainAlgorithm(s, p, x) \in WordPairs(32)
         /\ C64!MainAlgorithm(s, pd, C64!Swap(C64!MainAlgorithm(s, p, x))) = C64!Swap(x)
<1> DEFINE S == WordPairs(32)
<1>0. Backwards(pd, p)
  <2>1. \A j \in 0 .. 17 : 17 - j \in 0 .. 17 /\ 17 - (17 - j) = j OBVIOUS
  <2> QED BY <2>1 DEF Backwards
<1>1. PICK turn, back, rel :
        /\ turn = [t \in S \X (1 .. 8) |-> C64!BlowfishTurn(s, p, t[2] - 1, t[1])]
        /\ back = [t \in S \X (1 .. 8) |-> C64!BlowfishTurn(s, pd, t[2] - 1, t[1])]
        /\ rel = [t \in S \X (0 .. 8) |-> C64!Swap(C64!AddKeys(p, t[2], t[1]))]
  BY Zenon
<1>2. ASSUME NEW y \in S, NEW i \in 1 .. 8
      PROVE  turn[<<y, i>>] = C64!BlowfishTurn(s, p, i - 1, y) /\ back[<<y, i>>] = C64!BlowfishTurn(s, pd, i - 1, y)
  <2>1. <<y, i>> \in S \X (1 .. 8) OBVIOUS
  <2> QED BY <1>1, <2>1
<1>3. ASSUME NEW y \in S, NEW i \in 0 .. 8 PROVE rel[<<y, i>>] = C64!Swap(C64!AddKeys(p, i, y)) /\ rel[<<y, i>>] \in S
  <2>1. <<y, i>> \in S \X (0 .. 8) OBVIOUS
  <2>2. C64!AddKeys(p, i, y) \in S BY BlowfishTurns
  <2>3. C64!Swap(C64!AddKeys(p, i, y)) \in S BY <2>2, PairsAre DEF C64!Swap
  <2> QED BY <1>1, <2>1, <2>3
<1>4. StepsIn(8, S, turn) /\ StepsIn(8, S, back)
  <2>1. ASSUME NEW y \in S, NEW i \in 1 .. 8 PROVE turn[<<y, i>>] \in S /\ back[<<y, i>>] \in S
    <3>1. i - 1 \in 0 .. 7 OBVIOUS
    <3>2. C64!BlowfishTurn(s, p, i - 1, y) \in S BY <3>1, BlowfishTurns
    <3>3. C64!BlowfishTurn(s, pd, i - 1, y) \in S BY <1>0, <3>1, BlowfishTurns
    <3> QED BY Zenon, <1>2, <3>2, <3>3
  <2> QED BY Zenon, <2>1 DEF StepsIn
<1>5. Undoes(8, S, rel, turn, back)
  <2>1. ASSUME NEW i \in 1 .. 8, NEW y \in S
        PROVE  back[<<rel[<<turn[<<y, i>>], i>>], 8 + 1 - i>>] = rel[<<y, i - 1>>]
    <3>1. 8 + 1 - i \in 1 .. 8 /\ (8 + 1 - i) - 1 = 8 - i /\ i \in 0 .. 8 /\ i - 1 \in 0 .. 8 OBVIOUS
    <3>2. PICK z \in S : z = turn[<<y, i>>] /\ z = C64!BlowfishTurn(s, p, i - 1, y) BY Zenon, <1>2, <1>4 DEF StepsIn
    <3>3. PICK v \in S : v = rel[<<z, i>>] /\ v = C64!Swap(C64!AddKeys(p, i, z)) BY Zenon, <1>3, <3>1
    <3>4. back[<<v, 8 + 1 - i>>] = C64!BlowfishTurn(s, pd, 8 - i, v) BY Zenon, <1>2, <3>1
    <3>5. rel[<<y, i - 1>>] = C64!Swap(C64!AddKeys(p, i - 1, y)) BY Zenon, <1>3, <3>1
    <3>6. C64!BlowfishTurn(s, pd, 8 - i, v) = C64!Swap(C64!AddKeys(p, i - 1, y))
      BY <3>2, <3>3, BlowfishTurns
    <3> QED BY <3>2, <3>3, <3>4, <3>5, <3>6
  <2>2. \A i \in 0 .. 8 : \A y \in S : rel[<<y, i>>] \in S BY Zenon, <1>3
  <2> QED BY <2>1, <2>2 DEF Undoes
<1>6. PICK y \in S : y = Iterated(8, x, turn) /\ Iterated(8, rel[<<y, 8>>], back) = rel[<<x, 0>>]
  BY <1>4, <1>5, Unwound
<1>7. 8 \in 0 .. 8 /\ 0 \in 0 .. 8 /\ 8 - 0 = 8 OBVIOUS
<1>8. PICK e \in S : e = C64!AddKeys(p, 8, y) BY <1>7, BlowfishTurns
<1>9. C64!MainAlgorithm(s, p, x) = e BY <1>1, <1>6, <1>8, Words64 DEF C64!MainAlgorithm
<1>10. rel[<<y, 8>>] = C64!Swap(e) /\ rel[<<x, 0>>] = C64!Swap(C64!AddKeys(p, 0, x)) BY Zenon, <1>3, <1>7, <1>8
<1>11. C64!MainAlgorithm(s, pd, C64!Swap(e)) = C64!AddKeys(pd, 8, rel[<<x, 0>>])
  BY <1>1, <1>6, <1>10, Words64 DEF C64!MainAlgorithm
<1>12. C64!AddKeys(pd, 8 - 0, C64!Swap(C64!AddKeys(p, 0, x))) = C64!Swap(x) BY <1>7, BlowfishTurns
<1> QED BY <1>7, <1>8, <1>9, <1>10, <1>11, <1>12

LEMMA BlowfishInverse ==
  ASSUME NEW c, c.s \in SBoxes, c.p \in PArrays, c.pd \in PArrays, Backwards(c.p, c.pd), NEW in \in Block8
  PROVE  /\ C64!BlowfishEncrypt(c, in) \in Block8
         /\ C64!BlowfishDecrypt(c, C64!BlowfishEncrypt(c, in)) = in
         /\ C64!BlowfishDecrypt(c, in) \in Block8
         /\ C64!BlowfishEncrypt(c, C64!BlowfishDecrypt(c, in)) = in
<1>1. PICK s \in SBoxes, p \in PArrays, pd \in PArrays : s = c.s /\ p = c.p /\ pd = c.pd OBVIOUS
<1>2. Backwards(p, pd) /\ Backwards(pd, p)
  <2>1. \A j \in 0 .. 17 : 17 - j \in 0 .. 17 /\ 17 - (17 - j) = j OBVIOUS
  <2> QED BY <1>1, <2>1 DEF Backwards
<1>3. PICK v \in WordPairs(32) : WordsBE(4, in) = v /\ BytesBE(4, v) = in
  BY WordsOf8 DEF TwoWordsAre, Block8
<1>4. \A v1 \in WordPairs(32) : BytesBE(4, v1) \in Block8 /\ WordsBE(4, BytesBE(4, v1)) = v1
  BY WordsOf8 DEF TwoWordsAre, Block8
<1>5. \A v1 \in WordPairs(32) : C64!Swap(v1) \in WordPairs(32) /\ C64!Swap(C64!Swap(v1)) = v1
  BY PairsAre DEF C64!Swap
<1>6. \A q : \A b \in Block8 : C64!Crypt(s, q, b) = BytesBE(4, C64!Swap(C64!MainAlgorithm(s, q, WordsBE(4, b))))
  <2> SUFFICES ASSUME NEW q, NEW b \in Block8
               PROVE  C64!Crypt(s, q, b) = BytesBE(4, C64!Swap(C64!MainAlgorithm(s, q, WordsBE(4, b))))
    OBVIOUS
  <2>1. <<C64!PackBE(SubSeq(b, 1, 4)), C64!PackBE(SubSeq(b, 5, 8))>> = WordsBE(4, b)
    BY WordsOf8 DEF TwoWordsAre, Block8, C64!PackBE, PackBE
  <2>2. \A d : C64!Out(d) = BytesBE(4, C64!Swap(d)) BY Words64 DEF C64!Out, C64!Swap
  <2> QED BY <2>1, <2>2 DEF C64!Crypt
<1>7. ASSUME NEW q \in PArrays, NEW r \in PArrays, Backwards(q, r)
      PROVE  C64!Crypt(s, q, in) \in Block8 /\ C64!Crypt(s, r, C64!Crypt(s, q, in)) = in
  <2>1. PICK e \in WordPairs(32) : /\ e = C64!MainAlgorithm(s, q, v)
                                   /\ C64!MainAlgorithm(s, r, C64!Swap(e)) = C64!Swap(v)
    BY <1>7, BlowfishCore
  <2>2. PICK g \in WordPairs(32) : g = C64!Swap(e) BY <1>5
  <2>3. C64!Crypt(s, q, in) = BytesBE(4, g) BY <1>3, <1>6, <2>1, <2>2
  <2>4. C64!Crypt(s, r, BytesBE(4, g)) = BytesBE(4, C64!Swap(C64!Swap(v))) BY <1>4, <1>6, <2>1, <2>2
  <2> QED BY <1>3, <1>4, <1>5, <2>3, <2>4
<1>8. \A b : C64!BlowfishEncrypt(c, b) = C64!Crypt(s, p, b) /\ C64!BlowfishDecrypt(c, b) = C64!Crypt(s, pd, b)
  BY <1>1 DEF C64!BlowfishEncrypt, C64!BlowfishDecrypt
<1> QED BY <1>2, <1>7, <1>8

\* The tables, and the part of them that a loop of the key schedule has filled: the
\* ends of the two arrays of subkeys agree.
TablesOf == [s : SBoxes, p : PArrays, pd : PArrays, d : WordPairs(32)]
Filled(i, c) == \A j \in 0 .. 17 : j < 2*i => c.pd[17 - j] = c.p[j]
\* A function with another value at one argument.
WithAt(g, m, b) == [g EXCEPT ![m] = b]
Cells == 0 .. 1023
Firsts == 0 .. 1022
LEMMA BoxSet == \A s \in SBoxes : \A m \in Cells : \A b \in Word(32) : WithAt(s, m, b) \in SBoxes
BY DEF WithAt, SBoxes, Cells

LEMMA Stores ==
  ASSUME NEW c \in TablesOf, NEW e \in WordPairs(32)
  PROVE  /\ \A i \in 1 .. 9 : /\ C64!StoreP(c, 2*i - 2, e) \in TablesOf
                              /\ Filled(i - 1, c) => Filled(i, C64!StoreP(c, 2*i - 2, e))
         /\ \A m \in Firsts : /\ C64!StoreS(c, m, e) \in TablesOf
                              /\ C64!StoreS(c, m, e).p = c.p /\ C64!StoreS(c, m, e).pd = c.pd
<1>1. PICK s \in SBoxes, p \in PArrays, pd \in PArrays, d \in WordPairs(32) :
        c = [s |-> s, p |-> p, pd |-> pd, d |-> d] /\ c.p = p /\ c.pd = pd /\ c.s = s
  BY DEF TablesOf
<1>2. PICK a \in Word(32), b \in Word(32) : e = <<a, b>> BY PairsAre
<1>3. <<b, a>> \in WordPairs(32) BY PairsAre
<1>4. ASSUME NEW i \in 1 .. 9
      PROVE  C64!StoreP(c, 2*i - 2, e) \in TablesOf /\ (Filled(i - 1, c) => Filled(i, C64!StoreP(c, 2*i - 2, e)))
  <2>1. PICK m \in 0 .. 16 : m = 2*i - 2 OBVIOUS
  <2>2. m + 1 \in 0 .. 17 /\ m \in 0 .. 17 /\ 17 - m \in 0 .. 17 /\ 16 - m \in 0 .. 17 /\ m # m + 1 /\ 17 - m # 16 - m
    OBVIOUS
  <2>3. PICK q \in PArrays : q = [[p EXCEPT ![m] = b] EXCEPT ![m + 1] = a] BY Zenon, <2>2 DEF PArrays
  <2>4. PICK r \in PArrays : r = [[pd EXCEPT ![17 - m] = b] EXCEPT ![16 - m] = a] BY Zenon, <2>2 DEF PArrays
  <2>5. \A j \in 0 .. 17 : q[j] = IF j = m THEN b ELSE IF j = m + 1 THEN a ELSE p[j] BY <2>2, <2>3 DEF PArrays
  <2>6. \A j \in 0 .. 17 : r[17 - j] = IF j = m THEN b ELSE IF j = m + 1 THEN a ELSE pd[17 - j]
    <3> TAKE j \in 0 .. 17
    <3>1. 17 - j \in 0 .. 17 /\ (17 - j = 17 - m <=> j = m) /\ (17 - j = 16 - m <=> j = m + 1) OBVIOUS
    <3> QED BY <2>2, <2>4, <3>1 DEF PArrays
  <2>7. C64!StoreP(c, m, e) = [s |-> s, p |-> q, pd |-> r, d |-> <<b, a>>]
    <3>1. C64!StoreP(c, m, e) = [[[c EXCEPT !.p = q] EXCEPT !.pd = r] EXCEPT !.d = <<b, a>>]
      <4>1. e[1] = a /\ e[2] = b /\ [c EXCEPT !.p = q].pd = pd BY <1>1, <1>2
      <4>2. q = [[c.p EXCEPT ![m] = e[2]] EXCEPT ![m + 1] = e[1]] BY <1>1, <2>3, <4>1
      <4>3. r = [[[c EXCEPT !.p = q].pd EXCEPT ![17 - m] = e[2]] EXCEPT ![16 - m] = e[1]] BY Zenon, <2>4, <4>1
      <4> QED BY <4>1, <4>2, <4>3, Zenon DEF C64!StoreP
    <3>2. [c EXCEPT !.p = q] = [s |-> s, p |-> q, pd |-> pd, d |-> d] BY <1>1
    <3>3. [[s |-> s, p |-> q, pd |-> pd, d |-> d] EXCEPT !.pd = r] = [s |-> s, p |-> q, pd |-> r, d |-> d] OBVIOUS
    <3>4. [[s |-> s, p |-> q, pd |-> r, d |-> d] EXCEPT !.d = <<b, a>>] = [s |-> s, p |-> q, pd |-> r, d |-> <<b, a>>]
      OBVIOUS
    <3> QED BY Zenon, <3>1, <3>2, <3>3, <3>4
  <2>8. C64!StoreP(c, m, e) \in TablesOf BY <1>3, <2>7 DEF TablesOf
  <2>9. C64!StoreP(c, m, e).p = q /\ C64!StoreP(c, m, e).pd = r BY <2>7
  <2>10. ASSUME Filled(i - 1, c) PROVE Filled(i, C64!StoreP(c, m, e))
    <3>1. ASSUME NEW j \in 0 .. 17, j < 2*i PROVE r[17 - j] = q[j]
      <4>1. CASE j < m
        <5>1. j < 2*(i - 1) /\ j # m /\ j # m + 1 BY <2>1, <4>1
        <5>2. pd[17 - j] = p[j] BY <1>1, <2>10, <5>1 DEF Filled
        <5> QED BY <2>5, <2>6, <5>1, <5>2
      <4>2. CASE j = m \/ j = m + 1 BY <2>5, <2>6, <4>2
      <4>3. j < m + 2 BY <2>1, <3>1
      <4> QED BY <4>1, <4>2, <4>3
    <3> QED BY <2>9, <3>1 DEF Filled
  <2> QED BY <2>1, <2>8, <2>10
<1>5. ASSUME NEW m \in Firsts
      PROVE  /\ C64!StoreS(c, m, e) \in TablesOf
             /\ C64!StoreS(c, m, e).p = c.p /\ C64!StoreS(c, m, e).pd = c.pd
  <2>1. m \in Cells /\ m + 1 \in Cells BY DEF Cells, Firsts
  <2>2. PICK q \in SBoxes : q = [[s EXCEPT ![m] = b] EXCEPT ![m + 1] = a]
    <3>1. WithAt(s, m, b) \in SBoxes BY <2>1, BoxSet, Zenon
    <3>2. WithAt(WithAt(s, m, b), m + 1, a) \in SBoxes BY <2>1, <3>1, BoxSet, Zenon
    <3> QED BY <3>2, Zenon DEF WithAt
  <2>3. C64!StoreS(c, m, e) = [s |-> q, p |-> p, pd |-> pd, d |-> <<b, a>>]
    <3>1. C64!StoreS(c, m, e) = [[c EXCEPT !.s = q] EXCEPT !.d = <<b, a>>]
      <4>1. e[1] = a /\ e[2] = b BY <1>2
      <4>2. q = [[c.s EXCEPT ![m] = e[2]] EXCEPT ![m + 1] = e[1]] BY <1>1, <2>2, <4>1
      <4> QED BY <4>1, <4>2, Zenon DEF C64!StoreS
    <3>2. [c EXCEPT !.s = q] = [s |-> q, p |-> p, pd |-> pd, d |-> d] BY <1>1
    <3>3. [[s |-> q, p |-> p, pd |-> pd, d |-> d] EXCEPT !.d = <<b, a>>] = [s |-> q, p |-> p, pd |-> pd, d |-> <<b, a>>]
      OBVIOUS
    <3> QED BY <3>1, <3>2, <3>3, Zenon
  <2>4. C64!StoreS(c, m, e) \in TablesOf BY <1>3, <2>3 DEF TablesOf
  <2>5. C64!StoreS(c, m, e).p = p /\ C64!StoreS(c, m, e).pd = pd BY <2>3
  <2> QED BY <1>1, <2>4, <2>5
<1> QED BY <1>4, <1>5, Zenon

LEMMA MainTyped ==
  \A s \in SBoxes : \A p \in PArrays : \A x \in WordPairs(32) : C64!MainAlgorithm(s, p, x) \in WordPairs(32)
<1> SUFFICES ASSUME NEW s \in SBoxes, NEW p \in PArrays, NEW x \in WordPairs(32)
             PROVE  C64!MainAlgorithm(s, p, x) \in WordPairs(32)
  OBVIOUS
<1>1. PICK pd : pd = [j \in 0 .. 17 |-> p[17 - j]] BY Zenon
<1>2. \A j \in 0 .. 17 : 17 - j \in 0 .. 17 /\ 17 - (17 - j) = j OBVIOUS
<1>3. pd \in PArrays BY <1>1, <1>2 DEF PArrays
<1>4. Backwards(p, pd) BY <1>1, <1>2 DEF Backwards
<1> QED BY <1>3, <1>4, BlowfishCore

\* The loops of the key schedule, on tables of the right types.
Paired == {c \in TablesOf : Backwards(c.p, c.pd)}
LEMMA TablesAre == C64!Tables = TablesOf
BY DEF C64!Tables, TablesOf, SBoxes, PArrays, C64!Word, C64!WordPairs, Word, WordPairs

LEMMA Fills ==
  ASSUME NEW c \in TablesOf
  PROVE  /\ \A i \in 1 .. 9 : /\ C64!FillP(c, 2*i - 2) \in TablesOf
                              /\ Filled(i - 1, c) => Filled(i, C64!FillP(c, 2*i - 2))
         /\ c \in Paired => \A m \in Firsts : C64!FillS(c, m) \in Paired
<1>1. c.s \in SBoxes /\ c.p \in PArrays /\ c.d \in WordPairs(32) BY DEF TablesOf
<1>2. PICK e \in WordPairs(32) : e = C64!MainAlgorithm(c.s, c.p, c.d) BY <1>1, MainTyped
<1>3. ASSUME NEW i \in 1 .. 9
      PROVE  /\ C64!FillP(c, 2*i - 2) \in TablesOf
             /\ Filled(i - 1, c) => Filled(i, C64!FillP(c, 2*i - 2))
  <2>1. C64!FillP(c, 2*i - 2) = C64!StoreP(c, 2*i - 2, e) BY <1>2 DEF C64!FillP
  <2> QED BY <2>1, Stores, Zenon
<1>4. ASSUME c \in Paired, NEW m \in Firsts PROVE C64!FillS(c, m) \in Paired
  <2>1. PICK g : g = C64!StoreS(c, m, e) OBVIOUS
  <2>2. g \in TablesOf /\ g.p = c.p /\ g.pd = c.pd BY <2>1, Stores, Zenon
  <2>3. g \in Paired BY <1>4, <2>2 DEF Paired
  <2> QED BY <1>2, <2>1, <2>3 DEF C64!FillS
<1> QED BY <1>3, <1>4

LEMMA BlowfishLoopP ==
  ASSUME NEW c \in TablesOf PROVE C64!LoopP(c) \in Paired
<1>1. PICK turn : turn = [t \in TablesOf \X (1 .. 9) |-> C64!FillP(t[1], 2*t[2] - 2)] BY Zenon
<1>2. ASSUME NEW y \in TablesOf, NEW i \in 1 .. 9
      PROVE  turn[<<y, i>>] = C64!FillP(y, 2*i - 2) /\ turn[<<y, i>>] \in TablesOf
  <2>1. <<y, i>> \in TablesOf \X (1 .. 9) OBVIOUS
  <2>2. turn[<<y, i>>] = C64!FillP(y, 2*i - 2) BY <1>1, <2>1
  <2>3. C64!FillP(y, 2*i - 2) \in TablesOf BY Fills
  <2> QED BY <2>2, <2>3
<1>3. StepsIn(9, TablesOf, turn) BY Zenon, <1>2 DEF StepsIn
<1>4. PICK f \in [0 .. 9 -> TablesOf] : Recursive(f, 9, c, turn) /\ Iterated(9, c, turn) = f[9]
  <2>1. PICK n \in Nat : n = 9 OBVIOUS
  <2>2. StepsIn(n, TablesOf, turn) BY <1>3, <2>1
  <2>3. \E f \in [0 .. n -> TablesOf] : Recursive(f, n, c, turn) /\ Iterated(n, c, turn) = f[n] BY <2>2, IteratedIs
  <2> QED BY <2>1, <2>3
<1> DEFINE U == {i \in 0 .. 9 : Filled(i, f[i])}
<1>5. 0 \in U BY DEF Filled
<1>6. ASSUME NEW i \in 0 .. 9 - 1, i \in U PROVE i + 1 \in U
  <2>1. i + 1 \in 1 .. 9 /\ i + 1 \in 0 .. 9 /\ (i + 1) - 1 = i /\ i \in 0 .. 9 OBVIOUS
  <2>2. PICK n \in 1 .. 9 : n = i + 1 BY <2>1
  <2>3. PICK g \in TablesOf : g = f[i] BY <2>1
  <2>4. f[n] = turn[<<g, n>>] BY <1>4, <2>1, <2>2, <2>3 DEF Recursive
  <2>5. f[n] = C64!FillP(g, 2*n - 2) BY Zenon, <1>2, <2>4
  <2>6. Filled(n - 1, g) BY <1>6, <2>1, <2>2, <2>3
  <2>7. Filled(n, f[n]) BY <2>5, <2>6, Fills
  <2> QED BY <2>1, <2>2, <2>7
<1> HIDE DEF U
<1>7. \A i \in 0 .. 9 : i \in U BY <1>5, <1>6, Inductive
<1>8. PICK g \in TablesOf : g = f[9] /\ Filled(9, g) BY <1>7 DEF U
<1>9. Backwards(g.p, g.pd) BY <1>8 DEF Filled, Backwards
<1>10. C64!LoopP(c) = g BY <1>1, <1>4, <1>8, Words64, TablesAre DEF C64!LoopP
<1> QED BY <1>9, <1>10 DEF Paired

LEMMA BlowfishLoopS ==
  ASSUME NEW c \in Paired PROVE C64!LoopS(c) \in Paired
<1>1. ASSUME NEW x \in Paired, NEW m \in 1 .. 16 PROVE C64!Turns32(x, m) \in Paired
  <2>1. PICK turn : turn = [t \in TablesOf \X (1 .. 32) |-> C64!FillS(t[1], 64 * (m-1) + 2 * (t[2]-1))] BY Zenon
  <2>2. ASSUME NEW y \in Paired, NEW i \in 1 .. 32 PROVE turn[<<y, i>>] \in Paired
    <3>1. <<y, i>> \in TablesOf \X (1 .. 32) BY DEF Paired
    <3>2. PICK j \in Firsts : j = 64 * (m-1) + 2 * (i-1) BY DEF Firsts
    <3>3. turn[<<y, i>>] = C64!FillS(y, j) BY <2>1, <3>1, <3>2
    <3>4. y \in TablesOf BY DEF Paired
    <3>5. C64!FillS(y, j) \in Paired BY <3>4, Fills, Zenon
    <3> QED BY <3>3, <3>5
  <2>3. StepsIn(32, Paired, turn) BY Zenon, <2>2 DEF StepsIn
  <2>4. PICK f \in [0 .. 32 -> Paired] : Iterated(32, x, turn) = f[32]
    <3>1. PICK n \in Nat : n = 32 OBVIOUS
    <3>2. StepsIn(n, Paired, turn) BY <2>3, <3>1
    <3>3. \E f \in [0 .. n -> Paired] : Recursive(f, n, x, turn) /\ Iterated(n, x, turn) = f[n] BY <3>2, IteratedIs
    <3> QED BY <3>1, <3>3
  <2>5. f[32] \in Paired OBVIOUS
  <2>6. C64!Turns32(x, m) = f[32] BY <2>1, <2>4, Words64, TablesAre DEF C64!Turns32
  <2> QED BY <2>5, <2>6
<1>2. PICK turn : turn = [t \in TablesOf \X (1 .. 16) |-> C64!Turns32(t[1], t[2])] BY Zenon
<1>3. ASSUME NEW y \in Paired, NEW i \in 1 .. 16 PROVE turn[<<y, i>>] \in Paired
  <2>1. <<y, i>> \in TablesOf \X (1 .. 16) BY DEF Paired
  <2>2. turn[<<y, i>>] = C64!Turns32(y, i) BY <1>2, <2>1
  <2> QED BY <1>1, <2>2
<1>4. StepsIn(16, Paired, turn) BY Zenon, <1>3 DEF StepsIn
<1>5. PICK f \in [0 .. 16 -> Paired] : Iterated(16, c, turn) = f[16]
  <2>1. PICK n \in Nat : n = 16 OBVIOUS
  <2>2. StepsIn(n, Paired, turn) BY <1>4, <2>1
  <2>3. \E f \in [0 .. n -> Paired] : Recursive(f, n, c, turn) /\ Iterated(n, c, turn) = f[n] BY <2>2, IteratedIs
  <2> QED BY <2>1, <2>3
<1>6. f[16] \in Paired OBVIOUS
<1>7. C64!LoopS(c) = f[16] BY <1>2, <1>5, Words64, TablesAre DEF C64!LoopS
<1> QED BY <1>6, <1>7

LEMMA BlowfishSchedule ==
  ASSUME NEW key \in Seq(Byte), Len(key) # 0 PROVE C64!BlowfishSetKey(key) \in Paired
<1> DEFINE s == [i \in 0 .. 1023 |-> C64!m_sbox(i)]
           p == [i \in 0 .. 17 |-> C64!Xor(C64!m_parray(i), C64!KeyWord(key, i))]
           pd == [i \in 0 .. 17 |-> {}]
           c == [s |-> s, p |-> p, pd |-> pd, d |-> <<{}, {}>>]
<1>1. C64!BlowfishSetKey(key) = C64!LoopS(C64!LoopP(c)) BY DEF C64!BlowfishSetKey
<1>2. s \in SBoxes
  <2>1. ASSUME NEW i \in 0 .. 1023 PROVE C64!m_sbox(i) \in Word(32)
    <3>1. C64!OfNum(10, i) \in Word(10) BY DEF C64!OfNum, Word
    <3>2. 200 \in WordTables BY DEF WordTables
    <3> QED BY <3>1, <3>2, TableAssumption DEF C64!m_sbox
  <2> QED BY <2>1 DEF SBoxes
<1>3. ASSUME NEW i \in 0 .. 17 PROVE C64!KeyWord(key, i) \in Word(32)
  <2>1. PICK n \in Nat \ {0} : n = Len(key) OBVIOUS
  <2>2. \A j \in 1 .. 4 : 4*i + j-1 \in Int OBVIOUS
  <2>3. \A j \in Int : (j % n) + 1 \in 1 .. n BY RemainderOfInt
  <2>4. \A j \in 1 .. n : key[j] \in Byte BY <2>1
  <2>5. PICK b : b = [j \in 1 .. 4 |-> key[((4*i + j-1) % Len(key)) + 1]] BY Zenon
  <2>6. b \in [1 .. 4 -> Byte] BY Zenon, <2>1, <2>2, <2>3, <2>4, <2>5
  <2>7. PICK m \in Nat \ {0} : m = 4 OBVIOUS
  <2>8. PackBE(b) \in Word(8*m) BY Zenon, <2>6, <2>7, Packed
  <2>9. 8*m = 32 BY <2>7
  <2>10. C64!PackBE(b) = PackBE(b) BY DEF C64!PackBE, PackBE
  <2> QED BY <2>5, <2>8, <2>9, <2>10 DEF C64!KeyWord
<1>5. p \in PArrays
  <2>1. ASSUME NEW i \in 0 .. 17 PROVE C64!Xor(C64!m_parray(i), C64!KeyWord(key, i)) \in Word(32)
    <3>1. C64!OfNum(5, i) \in Word(10) BY DEF C64!OfNum, Word
    <3>2. 201 \in WordTables BY DEF WordTables
    <3>3. C64!m_parray(i) \in Word(32) BY <3>1, <3>2, TableAssumption DEF C64!m_parray
    <3> QED BY Zenon, <1>3, <3>3, Xor32, Words64
  <2> QED BY <2>1 DEF PArrays
<1>6. PICK z \in Word(32) : z = {} BY DEF Word
<1>8. pd \in PArrays BY <1>6 DEF PArrays
<1>9. <<{}, {}>> \in WordPairs(32) BY Zenon, <1>6, PairsAre
<1> HIDE DEF s, p, pd
<1>10. c \in TablesOf BY <1>2, <1>5, <1>8, <1>9 DEF TablesOf
<1> HIDE DEF c
<1>12. PICK e \in Paired : e = C64!LoopP(c) BY <1>10, BlowfishLoopP
<1> QED BY <1>1, <1>12, BlowfishLoopS

----------------------------------------------------------------------------
(* The ciphers as block-plugin.hh calls them. *)

Invertible == {"DES", "DESede", "Blowfish", "TEA", "XTEA", "SEED", "CAST-128", "CAST-256"}
Blocks(a) == [1 .. block_size(a) -> Byte]
SizedKeys(a) == {key \in Seq(Byte) : Len(key) \in KeySizes(a)}
Keyed(a, key) == SetKeyInternal(a, <<>>, key, "both")

LEMMA NotRijndael == \A a \in Invertible : ~IsRijndael(a)
BY DEF Invertible, IsRijndael, RijndaelNb

LEMMA Sizes8 ==
  /\ \A a \in {"DES", "DESede", "Blowfish", "TEA", "XTEA", "CAST-128"} : block_size(a) = 8
  /\ \A a \in {"SEED", "CAST-256"} : block_size(a) = 16
BY NotRijndael DEF block_size, Invertible

LEMMA KeySizesAre ==
  KeySizes("Blowfish") = 1 .. 56 /\ KeySizes("TEA") = {16} /\ KeySizes("XTEA") = {16}
<1>1. KeySizes("Blowfish") = 1 .. 56 BY NotRijndael DEF KeySizes, Invertible
<1>2. KeySizes("TEA") = {16} BY NotRijndael DEF KeySizes, Invertible
<1>3. KeySizes("XTEA") = {16} BY NotRijndael DEF KeySizes, Invertible
<1> QED BY <1>1, <1>2, <1>3

\* What each cipher is given to.
LEMMA SetKeys ==
  \A c, key, flags :
    /\ SetKeyInternal("DES", c, key, flags) = C64!DesSetKey(key)
    /\ SetKeyInternal("DESede", c, key, flags) = C64!SetKey3(key)
    /\ SetKeyInternal("Blowfish", c, key, flags) = C64!BlowfishSetKey(key)
    /\ SetKeyInternal("TEA", c, key, flags) = C64!TeaSetKey(key)
    /\ SetKeyInternal("XTEA", c, key, flags) = C64!XteaSetKey(32, key)
    /\ SetKeyInternal("SEED", c, key, flags) = C128!SeedSetKey(key)
    /\ SetKeyInternal("CAST-128", c, key, flags) = CA!SetKey5(key)
    /\ SetKeyInternal("CAST-256", c, key, flags) = CA!SetKey6(key)
<1>1. \A c, key, flags : SetKeyInternal("DES", c, key, flags) = C64!DesSetKey(key)
  BY NotRijndael DEF SetKeyInternal, Invertible
<1>2. \A c, key, flags : SetKeyInternal("DESede", c, key, flags) = C64!SetKey3(key)
  BY NotRijndael DEF SetKeyInternal, Invertible
<1>3. \A c, key, flags : SetKeyInternal("Blowfish", c, key, flags) = C64!BlowfishSetKey(key)
  BY NotRijndael DEF SetKeyInternal, Invertible
<1>4. \A c, key, flags : SetKeyInternal("TEA", c, key, flags) = C64!TeaSetKey(key)
  BY NotRijndael DEF SetKeyInternal, Invertible
<1>5. \A c, key, flags : SetKeyInternal("XTEA", c, key, flags) = C64!XteaSetKey(32, key)
  BY NotRijndael DEF SetKeyInternal, Invertible
<1>6. \A c, key, flags : SetKeyInternal("SEED", c, key, flags) = C128!SeedSetKey(key)
  BY NotRijndael DEF SetKeyInternal, Invertible
<1>7. \A c, key, flags : SetKeyInternal("CAST-128", c, key, flags) = CA!SetKey5(key)
  BY NotRijndael DEF SetKeyInternal, Invertible
<1>8. \A c, key, flags : SetKeyInternal("CAST-256", c, key, flags) = CA!SetKey6(key)
  BY NotRijndael DEF SetKeyInternal, Invertible
<1> QED BY <1>1, <1>2, <1>3, <1>4, <1>5, <1>6, <1>7, <1>8

LEMMA Encrypts ==
  \A c, in :
    /\ EncryptBlock("DES", c, in) = C64!DesEncrypt(c, in)
    /\ EncryptBlock("DESede", c, in) = C64!Encrypt3(c, in)
    /\ EncryptBlock("Blowfish", c, in) = C64!BlowfishEncrypt(c, in)
    /\ EncryptBlock("TEA", c, in) = C64!TeaEncrypt(c, in)
    /\ EncryptBlock("XTEA", c, in) = C64!XteaEncrypt(c, in)
    /\ EncryptBlock("SEED", c, in) = C128!SeedEncrypt(c, in)
    /\ EncryptBlock("CAST-128", c, in) = CA!Encrypt5(c, in)
    /\ EncryptBlock("CAST-256", c, in) = CA!Encrypt6(c, in)
<1>1. \A c, in : EncryptBlock("DES", c, in) = C64!DesEncrypt(c, in)
  BY NotRijndael DEF EncryptBlock, Invertible
<1>2. \A c, in : EncryptBlock("DESede", c, in) = C64!Encrypt3(c, in)
  BY NotRijndael DEF EncryptBlock, Invertible
<1>3. \A c, in : EncryptBlock("Blowfish", c, in) = C64!BlowfishEncrypt(c, in)
  BY NotRijndael DEF EncryptBlock, Invertible
<1>4. \A c, in : EncryptBlock("TEA", c, in) = C64!TeaEncrypt(c, in)
  BY NotRijndael DEF EncryptBlock, Invertible
<1>5. \A c, in : EncryptBlock("XTEA", c, in) = C64!XteaEncrypt(c, in)
  BY NotRijndael DEF EncryptBlock, Invertible
<1>6. \A c, in : EncryptBlock("SEED", c, in) = C128!SeedEncrypt(c, in)
  BY NotRijndael DEF EncryptBlock, Invertible
<1>7. \A c, in : EncryptBlock("CAST-128", c, in) = CA!Encrypt5(c, in)
  BY NotRijndael DEF EncryptBlock, Invertible
<1>8. \A c, in : EncryptBlock("CAST-256", c, in) = CA!Encrypt6(c, in)
  BY NotRijndael DEF EncryptBlock, Invertible
<1> QED BY <1>1, <1>2, <1>3, <1>4, <1>5, <1>6, <1>7, <1>8

LEMMA Decrypts ==
  \A c, in :
    /\ DecryptBlock("DES", c, in) = C64!DesDecrypt(c, in)
    /\ DecryptBlock("DESede", c, in) = C64!Decrypt3(c, in)
    /\ DecryptBlock("Blowfish", c, in) = C64!BlowfishDecrypt(c, in)
    /\ DecryptBlock("TEA", c, in) = C64!TeaDecrypt(c, in)
    /\ DecryptBlock("XTEA", c, in) = C64!XteaDecrypt(c, in)
    /\ DecryptBlock("SEED", c, in) = C128!SeedDecrypt(c, in)
    /\ DecryptBlock("CAST-128", c, in) = CA!Decrypt5(c, in)
    /\ DecryptBlock("CAST-256", c, in) = CA!Decrypt6(c, in)
<1>1. \A c, in : DecryptBlock("DES", c, in) = C64!DesDecrypt(c, in)
  BY NotRijndael DEF DecryptBlock, Invertible
<1>2. \A c, in : DecryptBlock("DESede", c, in) = C64!Decrypt3(c, in)
  BY NotRijndael DEF DecryptBlock, Invertible
<1>3. \A c, in : DecryptBlock("Blowfish", c, in) = C64!BlowfishDecrypt(c, in)
  BY NotRijndael DEF DecryptBlock, Invertible
<1>4. \A c, in : DecryptBlock("TEA", c, in) = C64!TeaDecrypt(c, in)
  BY NotRijndael DEF DecryptBlock, Invertible
<1>5. \A c, in : DecryptBlock("XTEA", c, in) = C64!XteaDecrypt(c, in)
  BY NotRijndael DEF DecryptBlock, Invertible
<1>6. \A c, in : DecryptBlock("SEED", c, in) = C128!SeedDecrypt(c, in)
  BY NotRijndael DEF DecryptBlock, Invertible
<1>7. \A c, in : DecryptBlock("CAST-128", c, in) = CA!Decrypt5(c, in)
  BY NotRijndael DEF DecryptBlock, Invertible
<1>8. \A c, in : DecryptBlock("CAST-256", c, in) = CA!Decrypt6(c, in)
  BY NotRijndael DEF DecryptBlock, Invertible
<1> QED BY <1>1, <1>2, <1>3, <1>4, <1>5, <1>6, <1>7, <1>8

LEMMA Direct ==
  \A a \in Invertible :
    /\ \A c, in : EncryptFastBlock(a, c, in) = EncryptBlock(a, c, in) /\ DecryptFastBlock(a, c, in) = DecryptBlock(a, c, in)
    /\ FastBlocks(a, 2) = 2 /\ ~Checks(a) /\ a # "none"
BY DEF Invertible, EncryptFastBlock, DecryptFastBlock, FastBlocks, Checks

\* The schedule that a key leaves, whatever was there before.
LEMMA KeyReplaces ==
  \A a \in Invertible : \A c, key, flags : SetKeyInternal(a, c, key, flags) = Keyed(a, key)
<1> SUFFICES ASSUME NEW c, NEW key, NEW flags
             PROVE  \A a \in Invertible : SetKeyInternal(a, c, key, flags) = Keyed(a, key)
  OBVIOUS
<1>1. SetKeyInternal("DES", c, key, flags) = Keyed("DES", key)
  <2>1. SetKeyInternal("DES", c, key, flags) = C64!DesSetKey(key) BY SetKeys
  <2>2. Keyed("DES", key) = C64!DesSetKey(key) BY SetKeys DEF Keyed
  <2> QED BY <2>1, <2>2
<1>2. SetKeyInternal("DESede", c, key, flags) = Keyed("DESede", key)
  <2>1. SetKeyInternal("DESede", c, key, flags) = C64!SetKey3(key) BY SetKeys
  <2>2. Keyed("DESede", key) = C64!SetKey3(key) BY SetKeys DEF Keyed
  <2> QED BY <2>1, <2>2
<1>3. SetKeyInternal("Blowfish", c, key, flags) = Keyed("Blowfish", key)
  <2>1. SetKeyInternal("Blowfish", c, key, flags) = C64!BlowfishSetKey(key) BY SetKeys
  <2>2. Keyed("Blowfish", key) = C64!BlowfishSetKey(key) BY SetKeys DEF Keyed
  <2> QED BY <2>1, <2>2
<1>4. SetKeyInternal("TEA", c, key, flags) = Keyed("TEA", key)
  <2>1. SetKeyInternal("TEA", c, key, flags) = C64!TeaSetKey(key) BY SetKeys
  <2>2. Keyed("TEA", key) = C64!TeaSetKey(key) BY SetKeys DEF Keyed
  <2> QED BY <2>1, <2>2
<1>5. SetKeyInternal("XTEA", c, key, flags) = Keyed("XTEA", key)
  <2>1. SetKeyInternal("XTEA", c, key, flags) = C64!XteaSetKey(32, key) BY SetKeys
  <2>2. Keyed("XTEA", key) = C64!XteaSetKey(32, key) BY SetKeys DEF Keyed
  <2> QED BY <2>1, <2>2
<1>6. SetKeyInternal("SEED", c, key, flags) = Keyed("SEED", key)
  <2>1. SetKeyInternal("SEED", c, key, flags) = C128!SeedSetKey(key) BY SetKeys
  <2>2. Keyed("SEED", key) = C128!SeedSetKey(key) BY SetKeys DEF Keyed
  <2> QED BY <2>1, <2>2
<1>7. SetKeyInternal("CAST-128", c, key, flags) = Keyed("CAST-128", key)
  <2>1. SetKeyInternal("CAST-128", c, key, flags) = CA!SetKey5(key) BY SetKeys
  <2>2. Keyed("CAST-128", key) = CA!SetKey5(key) BY SetKeys DEF Keyed
  <2> QED BY <2>1, <2>2
<1>8. SetKeyInternal("CAST-256", c, key, flags) = Keyed("CAST-256", key)
  <2>1. SetKeyInternal("CAST-256", c, key, flags) = CA!SetKey6(key) BY SetKeys
  <2>2. Keyed("CAST-256", key) = CA!SetKey6(key) BY SetKeys DEF Keyed
  <2> QED BY <2>1, <2>2
<1> QED BY <1>1, <1>2, <1>3, <1>4, <1>5, <1>6, <1>7, <1>8 DEF Invertible

\* decrypt undoes encrypt and encrypt decrypt, on the block in.
Inverts(a, c, in) ==
    /\ EncryptBlock(a, c, in) \in Blocks(a) /\ DecryptBlock(a, c, EncryptBlock(a, c, in)) = in
    /\ DecryptBlock(a, c, in) \in Blocks(a) /\ EncryptBlock(a, c, DecryptBlock(a, c, in)) = in

LEMMA BlocksAre ==
  /\ \A a \in {"DES", "DESede", "Blowfish", "TEA", "XTEA", "CAST-128"} : Blocks(a) = Block8
  /\ \A a \in {"SEED", "CAST-256"} : Blocks(a) = Block16
BY Zenon, Sizes8 DEF Blocks, Block8, Block16

LEMMA DesInverts == \A key : \A in \in Block8 : Inverts("DES", Keyed("DES", key), in)
<1> SUFFICES ASSUME NEW key, NEW in \in Block8 PROVE Inverts("DES", Keyed("DES", key), in) OBVIOUS
<1>1. PICK c : c = C64!DesSetKey(key) /\ Keyed("DES", key) = c BY Zenon, SetKeys DEF Keyed
<1>2. Reverses(c.k, c.kd) /\ Reverses(c.kd, c.k) BY <1>1, DesSchedule, ReversesBack
<1>3. C64!DesEncrypt(c, in) \in Block8 /\ C64!DesDecrypt(c, C64!DesEncrypt(c, in)) = in
  BY <1>2, DesInverse DEF C64!DesEncrypt, C64!DesDecrypt
<1>4. C64!DesDecrypt(c, in) \in Block8 /\ C64!DesEncrypt(c, C64!DesDecrypt(c, in)) = in
  BY <1>2, DesInverse DEF C64!DesEncrypt, C64!DesDecrypt
<1> QED BY <1>1, <1>3, <1>4, Encrypts, Decrypts, BlocksAre DEF Inverts

LEMMA EdeInverts == \A key : \A in \in Block8 : Inverts("DESede", Keyed("DESede", key), in)
<1> SUFFICES ASSUME NEW key, NEW in \in Block8 PROVE Inverts("DESede", Keyed("DESede", key), in) OBVIOUS
<1>1. PICK c : c = C64!SetKey3(key) /\ Keyed("DESede", key) = c BY Zenon, SetKeys DEF Keyed
<1>2. PICK x, y, z : c = <<C64!DesSetKey(x), C64!DesSetKey(y), C64!DesSetKey(z)>> BY <1>1 DEF C64!SetKey3
<1>3. /\ Reverses(c[1].k, c[1].kd) /\ Reverses(c[2].k, c[2].kd) /\ Reverses(c[3].k, c[3].kd)
  BY <1>2, DesSchedule
<1>4. PICK k1, k2, k3, d1, d2, d3 : /\ k1 = c[1].k /\ k2 = c[2].k /\ k3 = c[3].k
                                    /\ d1 = c[1].kd /\ d2 = c[2].kd /\ d3 = c[3].kd
  OBVIOUS
<1>5. /\ Reverses(k1, d1) /\ Reverses(k2, d2) /\ Reverses(k3, d3)
      /\ Reverses(d1, k1) /\ Reverses(d2, k2) /\ Reverses(d3, k3)
  BY Zenon, <1>3, <1>4, ReversesBack
<1>6. \A b : C64!Encrypt3(c, b) = C64!EDE(k1, d2, k3, b) /\ C64!Decrypt3(c, b) = C64!EDE(d3, k2, d1, b)
  BY <1>4 DEF C64!Encrypt3, C64!Decrypt3
<1>7. C64!EDE(k1, d2, k3, in) \in Block8 /\ C64!EDE(d3, k2, d1, C64!EDE(k1, d2, k3, in)) = in
  BY <1>5, EdeInverse
<1>8. C64!EDE(d3, k2, d1, in) \in Block8 /\ C64!EDE(k1, d2, k3, C64!EDE(d3, k2, d1, in)) = in
  BY <1>5, EdeInverse
<1>9. C64!Encrypt3(c, in) \in Block8 /\ C64!Decrypt3(c, C64!Encrypt3(c, in)) = in BY Zenon, <1>6, <1>7
<1>10. C64!Decrypt3(c, in) \in Block8 /\ C64!Encrypt3(c, C64!Decrypt3(c, in)) = in BY Zenon, <1>6, <1>8
<1> QED BY <1>1, <1>9, <1>10, Encrypts, Decrypts, BlocksAre DEF Inverts

LEMMA BlowfishInverts ==
  \A key \in SizedKeys("Blowfish") : \A in \in Block8 : Inverts("Blowfish", Keyed("Blowfish", key), in)
<1> SUFFICES ASSUME NEW key \in SizedKeys("Blowfish"), NEW in \in Block8
             PROVE  Inverts("Blowfish", Keyed("Blowfish", key), in)
  OBVIOUS
<1>1. key \in Seq(Byte) /\ Len(key) # 0
  <2>1. key \in Seq(Byte) /\ Len(key) \in KeySizes("Blowfish") BY DEF SizedKeys
  <2>2. PICK n \in 1 .. 56 : n = Len(key) BY Zenon, <2>1, KeySizesAre
  <2>3. n # 0 OBVIOUS
  <2> QED BY <2>1, <2>2, <2>3, Zenon
<1>2. PICK c \in Paired : c = C64!BlowfishSetKey(key) BY <1>1, BlowfishSchedule
<1>3. Keyed("Blowfish", key) = c BY Zenon, <1>2, SetKeys DEF Keyed
<1>4. c.s \in SBoxes /\ c.p \in PArrays /\ c.pd \in PArrays /\ Backwards(c.p, c.pd) BY DEF Paired, TablesOf
<1>5. /\ C64!BlowfishEncrypt(c, in) \in Block8 /\ C64!BlowfishDecrypt(c, C64!BlowfishEncrypt(c, in)) = in
      /\ C64!BlowfishDecrypt(c, in) \in Block8 /\ C64!BlowfishEncrypt(c, C64!BlowfishDecrypt(c, in)) = in
  BY Zenon, <1>4, BlowfishInverse
<1> QED BY Zenon, <1>3, <1>5, Encrypts, Decrypts, BlocksAre DEF Inverts

LEMMA FourWordKey ==
  ASSUME NEW key \in Seq(Byte), Len(key) = 16 PROVE C64!WordsBE(4, key) \in Words(32, 4)
<1>1. key \in Block16
  <2>1. key \in [1 .. Len(key) -> Byte] BY Zenon, SeqIsFunction
  <2> QED BY <2>1 DEF Block16
<1>2. WordsBE(4, key) \in Words(32, 4) BY <1>1, FourWords
<1> QED BY <1>2, Words64

LEMMA TeaInverts ==
  \A key \in SizedKeys("TEA") : \A in \in Block8 : Inverts("TEA", Keyed("TEA", key), in)
<1> SUFFICES ASSUME NEW key \in SizedKeys("TEA"), NEW in \in Block8
             PROVE  Inverts("TEA", Keyed("TEA", key), in)
  OBVIOUS
<1>1. key \in Seq(Byte) /\ Len(key) = 16 BY Zenon, KeySizesAre DEF SizedKeys
<1>2. PICK c \in Words(32, 4) : c = C64!TeaSetKey(key) BY <1>1, FourWordKey DEF C64!TeaSetKey
<1>3. Keyed("TEA", key) = c BY Zenon, <1>2, SetKeys DEF Keyed
<1>4. /\ C64!TeaEncrypt(c, in) \in Block8 /\ C64!TeaDecrypt(c, C64!TeaEncrypt(c, in)) = in
      /\ C64!TeaDecrypt(c, in) \in Block8 /\ C64!TeaEncrypt(c, C64!TeaDecrypt(c, in)) = in
  BY TeaInverse
<1> QED BY Zenon, <1>3, <1>4, Encrypts, Decrypts, BlocksAre DEF Inverts

LEMMA XteaInverts ==
  \A key \in SizedKeys("XTEA") : \A in \in Block8 : Inverts("XTEA", Keyed("XTEA", key), in)
<1> SUFFICES ASSUME NEW key \in SizedKeys("XTEA"), NEW in \in Block8
             PROVE  Inverts("XTEA", Keyed("XTEA", key), in)
  OBVIOUS
<1>1. key \in Seq(Byte) /\ Len(key) = 16 BY Zenon, KeySizesAre DEF SizedKeys
<1>2. PICK c : c = C64!XteaSetKey(32, key) OBVIOUS
<1>3. c.k \in Words(32, 4) /\ c.rounds \in Nat BY <1>1, <1>2, FourWordKey DEF C64!XteaSetKey
<1>4. Keyed("XTEA", key) = c BY Zenon, <1>2, SetKeys DEF Keyed
<1>5. /\ C64!XteaEncrypt(c, in) \in Block8 /\ C64!XteaDecrypt(c, C64!XteaEncrypt(c, in)) = in
      /\ C64!XteaDecrypt(c, in) \in Block8 /\ C64!XteaEncrypt(c, C64!XteaDecrypt(c, in)) = in
  BY <1>3, XteaInverse
<1> QED BY Zenon, <1>4, <1>5, Encrypts, Decrypts, BlocksAre DEF Inverts

\* Every one of them, for every key of its sizes and every block.
LEMMA AllInvert ==
  \A a \in Invertible : \A key \in SizedKeys(a) : \A in \in Blocks(a) : Inverts(a, Keyed(a, key), in)
<1>1. \A c : \A in \in Block16 : Inverts("SEED", c, in)
  BY SeedInverse, Encrypts, Decrypts, BlocksAre DEF Inverts
<1>2. \A c : \A in \in Block8 : Inverts("CAST-128", c, in)
  BY Cast5Inverse, Encrypts, Decrypts, BlocksAre DEF Inverts
<1>3. \A c : \A in \in Block16 : Inverts("CAST-256", c, in)
  BY Cast6Inverse, Encrypts, Decrypts, BlocksAre DEF Inverts
<1> SUFFICES ASSUME NEW a \in Invertible, NEW key \in SizedKeys(a), NEW in \in Blocks(a)
             PROVE  Inverts(a, Keyed(a, key), in)
  BY Zenon
<1>4. CASE a = "DES" BY Zenon, <1>4, DesInverts, BlocksAre
<1>5. CASE a = "DESede" BY Zenon, <1>5, EdeInverts, BlocksAre
<1>6. CASE a = "Blowfish" BY Zenon, <1>6, BlowfishInverts, BlocksAre
<1>7. CASE a = "TEA" BY Zenon, <1>7, TeaInverts, BlocksAre
<1>8. CASE a = "XTEA" BY Zenon, <1>8, XteaInverts, BlocksAre
<1>9. CASE a = "SEED" BY Zenon, <1>1, <1>9, BlocksAre
<1>10. CASE a = "CAST-128" BY Zenon, <1>2, <1>10, BlocksAre
<1>11. CASE a = "CAST-256" BY Zenon, <1>3, <1>11, BlocksAre
<1> QED BY Zenon, <1>4, <1>5, <1>6, <1>7, <1>8, <1>9, <1>10, <1>11 DEF Invertible

----------------------------------------------------------------------------
(* The inductive invariant: a context in use holds the schedule that its key  *)
(* leaves, whatever the context held before, and every line of the book is a  *)
(* block and what it encrypts to under the key of the line.                   *)

Context(a, c, z, st, key) == [impl |-> a, c |-> c, keysz |-> z, state |-> st, key |-> key]
InForce(a, c, st, key) == st # "unkeyed" => key \in SizedKeys(a) /\ c = Keyed(a, key)
IsContext(a, v) ==
    \/ v = None
    \/ \E c, z, st, key : v = Context(a, c, z, st, key) /\ st \in States /\ InForce(a, c, st, key)
IsLine(a, l) ==
    \E key \in SizedKeys(a), in \in Blocks(a) : l = Line(key, in, EncryptBlock(a, Keyed(a, key), in))

ContextsOf(a) ==
    /\ ctx = [s \in Slots |-> ctx[s]]
    /\ \A s \in Slots : IsContext(a, ctx[s])
BookOf(a) == \A l \in book : IsLine(a, l)
IInv ==
    /\ family \in Families
    /\ \A a \in Invertible : family = {a} => ContextsOf(a) /\ BookOf(a)

\* What a call does to a context.
LEMMA NotNone ==
  ASSUME NEW a \in Invertible, NEW c, NEW z, NEW st, NEW key
  PROVE  Context(a, c, z, st, key) # None
<1>1. Context(a, c, z, st, key).impl = a /\ None.impl = "none" BY DEF Context, None
<1>2. a # "none" BY Direct
<1> QED BY <1>1, <1>2

LEMMA Given ==
  ASSUME NEW a \in Invertible, NEW s \in Slots, ContextsOf(a), Live(s)
  PROVE  \E c, z, st, key : /\ ctx[s] = Context(a, c, z, st, key) /\ st \in States /\ InForce(a, c, st, key)
                            /\ ctx[s].impl = a /\ ctx[s].c = c /\ ctx[s].state = st /\ ctx[s].key = key
<1>1. PICK c, z, st, key : ctx[s] = Context(a, c, z, st, key) /\ st \in States /\ InForce(a, c, st, key)
  BY DEF ContextsOf, IsContext, Live
<1>2. /\ Context(a, c, z, st, key).impl = a /\ Context(a, c, z, st, key).c = c
      /\ Context(a, c, z, st, key).state = st /\ Context(a, c, z, st, key).key = key
  BY DEF Context
<1> QED BY <1>1, <1>2

LEMMA SetContext ==
  ASSUME NEW a, NEW s \in Slots, NEW v, ContextsOf(a), IsContext(a, v), ctx' = [ctx EXCEPT ![s] = v]
  PROVE  ContextsOf(a)'
<1>1. ctx' = [t \in Slots |-> IF t = s THEN v ELSE ctx[t]] BY DEF ContextsOf
<1>2. \A t \in Slots : ctx'[t] = IF t = s THEN v ELSE ctx[t] BY <1>1
<1>3. ctx' = [t \in Slots |-> ctx'[t]] BY Zenon, <1>1
<1>4. \A t \in Slots : IsContext(a, ctx'[t]) BY <1>2 DEF ContextsOf
<1> QED BY <1>3, <1>4 DEF ContextsOf

\* What a client is given, and what a call notes in the book.
LEMMA NewLine ==
  ASSUME NEW a \in Invertible, NEW key \in SizedKeys(a), NEW in \in Blocks(a)
  PROVE  /\ IsLine(a, Line(key, in, EncryptBlock(a, Keyed(a, key), in)))
         /\ IsLine(a, Line(key, DecryptBlock(a, Keyed(a, key), in), in))
<1>1. IsLine(a, Line(key, in, EncryptBlock(a, Keyed(a, key), in))) BY DEF IsLine
<1>2. PICK p \in Blocks(a) : p = DecryptBlock(a, Keyed(a, key), in) /\ EncryptBlock(a, Keyed(a, key), p) = in
  BY AllInvert DEF Inverts
<1>3. IsLine(a, Line(key, p, EncryptBlock(a, Keyed(a, key), p))) BY DEF IsLine
<1> QED BY <1>1, <1>2, <1>3

LEMMA LineParts ==
  ASSUME NEW a \in Invertible, NEW l, IsLine(a, l)
  PROVE  /\ l.key \in SizedKeys(a) /\ l.plain \in Blocks(a) /\ l.cipher \in Blocks(a)
         /\ l.cipher = EncryptBlock(a, Keyed(a, l.key), l.plain)
         /\ l.plain = DecryptBlock(a, Keyed(a, l.key), l.cipher)
<1>1. PICK key \in SizedKeys(a), in \in Blocks(a) : l = Line(key, in, EncryptBlock(a, Keyed(a, key), in))
  BY DEF IsLine
<1>2. l.key = key /\ l.plain = in /\ l.cipher = EncryptBlock(a, Keyed(a, key), in) BY <1>1 DEF Line
<1>3. Inverts(a, Keyed(a, key), in) BY AllInvert
<1> QED BY <1>2, <1>3 DEF Inverts

LEMMA Reversal ==
  ASSUME NEW a, NEW in \in Blocks(a), block_size(a) \in Nat
  PROVE  Seqs!Reverse(in) \in Blocks(a)
<1>1. PICK n \in Nat : n = block_size(a) OBVIOUS
<1>2. in \in [1 .. n -> Byte] BY <1>1 DEF Blocks
<1>3. Len(in) = n BY <1>2, FunctionIsSeq
<1>4. \A i \in 1 .. n : (n - i) + 1 \in 1 .. n OBVIOUS
<1>5. Seqs!Reverse(in) = [i \in 1 .. n |-> in[(n - i) + 1]] BY <1>3 DEF Seqs!Reverse
<1>6. Seqs!Reverse(in) \in [1 .. n -> Byte] BY <1>2, <1>4, <1>5
<1> QED BY <1>1, <1>6 DEF Blocks

LEMMA BlockSizesAre == \A a \in Invertible : block_size(a) \in {8, 16}
BY Sizes8 DEF Invertible

LEMMA Client ==
  ASSUME NEW a \in Invertible, family = {a}, IInv
  PROVE  /\ Texts \subseteq Blocks(a) /\ Received \subseteq Blocks(a)
         /\ \A key \in Keys(family) : key \in SizedKeys(a)
         /\ Flags(family) \subseteq {"both", "encrypt", "decrypt"}
<1>1. a \in family /\ family \in Families BY DEF IInv
<1>2. /\ Text(block_size(a)) \in Blocks(a)
      /\ Flags(family) \subseteq {"both", "encrypt", "decrypt"}
  BY <1>1, ClientAssumption DEF Blocks
<1>3. \A key \in Keys(family) : key \in SizedKeys(a) BY <1>1, ClientAssumption, Direct DEF SizedKeys
<1>4. Texts \subseteq Blocks(a) BY <1>2 DEF Texts
<1>5. \A l \in book : l.cipher \in Blocks(a) BY LineParts DEF IInv, BookOf
<1> QED BY <1>2, <1>3, <1>4, <1>5 DEF Received

LEMMA Noted ==
  ASSUME NEW a \in Invertible, family = {a}, IInv, NEW lines, Note(lines), \A l \in lines : IsLine(a, l)
  PROVE  IInv'
<1>1. \A b \in Invertible : family = {b} => b = a OBVIOUS
<1>2. ContextsOf(a)' BY DEF IInv, ContextsOf, Note
<1>3. BookOf(a)' BY DEF IInv, BookOf, Note
<1> QED BY <1>1, <1>2, <1>3 DEF IInv, Note

LEMMA Changed ==
  ASSUME NEW a \in Invertible, family = {a}, IInv, NEW s \in Slots, NEW v, IsContext(a, v),
         ctx' = [ctx EXCEPT ![s] = v], UNCHANGED <<family, book>>
  PROVE  IInv'
<1>1. \A b \in Invertible : family = {b} => b = a OBVIOUS
<1>2. ContextsOf(a)' BY Zenon, SetContext DEF IInv
<1>3. BookOf(a)' BY DEF IInv, BookOf
<1> QED BY <1>1, <1>2, <1>3 DEF IInv

\* Each operation keeps the invariant.
Rekeyed(v, n, d, flags, key) == [v EXCEPT !.keysz = n, !.c = d, !.state = flags, !.key = key]
LEMMA ClientKeys ==
  \A a, c, z, st, k, n, d, flags, key : Rekeyed(Context(a, c, z, st, k), n, d, flags, key) = Context(a, d, n, flags, key)
<1> SUFFICES ASSUME NEW a, NEW c, NEW z, NEW st, NEW k, NEW n, NEW d, NEW flags, NEW key
             PROVE  Rekeyed(Context(a, c, z, st, k), n, d, flags, key) = Context(a, d, n, flags, key)
  BY Zenon
<1>1. [Context(a, c, z, st, k) EXCEPT !.keysz = n] = Context(a, c, n, st, k) BY DEF Context
<1>2. [Context(a, c, n, st, k) EXCEPT !.c = d] = Context(a, d, n, st, k) BY DEF Context
<1>3. [Context(a, d, n, st, k) EXCEPT !.state = flags] = Context(a, d, n, flags, k) BY DEF Context
<1>4. [Context(a, d, n, flags, k) EXCEPT !.key = key] = Context(a, d, n, flags, key) BY DEF Context
<1> QED BY Zenon, <1>1, <1>2, <1>3, <1>4 DEF Rekeyed

LEMMA InitKeeps ==
  ASSUME NEW a \in Invertible, family = {a}, IInv, NEW s \in Slots, NEW b \in family, init(s, b) PROVE IInv'
<1>1. PICK v : v = Context(a, Constructed(a), 0, "unkeyed", <<>>) OBVIOUS
<1>2. IsContext(a, v) BY <1>1 DEF IsContext, States, InForce
<1>3. b = a OBVIOUS
<1>4. ctx' = [ctx EXCEPT ![s] = v] /\ UNCHANGED <<family, book>> BY <1>1, <1>3 DEF init, Context
<1> QED BY Zenon, <1>2, <1>4, Changed

LEMMA SetkeyKeeps ==
  ASSUME NEW a \in Invertible, family = {a}, IInv, NEW s \in Slots, NEW key \in Keys(family),
         NEW flags \in Flags(family), setkey(s, key, flags)
  PROVE  IInv'
<1>1. PICK c, z, st, k : /\ ctx[s] = Context(a, c, z, st, k) /\ st \in States /\ InForce(a, c, st, k)
                         /\ ctx[s].impl = a /\ ctx[s].c = c /\ ctx[s].state = st /\ ctx[s].key = k
  BY Given DEF IInv, setkey
<1>2. Accepts(a, key) BY Direct DEF Accepts
<1>3. \A x : SetKeyInternal(a, x, key, flags) = Keyed(a, key) BY KeyReplaces
<1>4. PICK v : v = Context(a, Keyed(a, key), Len(key), flags, key) OBVIOUS
<1>5. ctx' = [ctx EXCEPT ![s] = v]
  <2>1. ctx' = [ctx EXCEPT ![s] = Rekeyed(ctx[s], Len(key), Keyed(a, key), flags, key)]
    BY Zenon, <1>1, <1>2, <1>3 DEF setkey, Rekeyed
  <2>2. Rekeyed(ctx[s], Len(key), Keyed(a, key), flags, key) = v BY <1>1, <1>4, ClientKeys
  <2> QED BY <2>1, <2>2, Zenon
<1>6. key \in SizedKeys(a) /\ flags \in {"both", "encrypt", "decrypt"} BY Client
<1>7. IsContext(a, v) BY <1>4, <1>6 DEF IsContext, States, InForce
<1> QED BY Zenon, <1>5, <1>7, Changed DEF setkey

LEMMA CloneKeeps ==
  ASSUME NEW a \in Invertible, family = {a}, IInv, NEW s \in Slots, NEW t \in Slots, clone(s, t) PROVE IInv'
<1>1. PICK v : v = ctx[s] OBVIOUS
<1>2. IsContext(a, v) BY <1>1 DEF IInv, ContextsOf
<1>3. ctx' = [ctx EXCEPT ![t] = v] /\ UNCHANGED <<family, book>> BY <1>1 DEF clone
<1> QED BY Zenon, <1>2, <1>3, Changed

LEMMA FiniKeeps ==
  ASSUME NEW a \in Invertible, family = {a}, IInv, NEW s \in Slots, fini(s) PROVE IInv'
<1>1. IsContext(a, None) BY DEF IsContext
<1>2. ctx' = [ctx EXCEPT ![s] = None] /\ UNCHANGED <<family, book>> BY DEF fini
<1> QED BY Zenon, <1>1, <1>2, Changed

LEMMA InUse ==
  ASSUME NEW a \in Invertible, family = {a}, IInv, NEW s \in Slots, NEW direction \in {"encrypt", "decrypt"},
         Ready(s, direction)
  PROVE  ctx[s].impl = a /\ ctx[s].key \in SizedKeys(a) /\ ctx[s].c = Keyed(a, ctx[s].key)
<1>1. PICK c, z, st, k : /\ ctx[s] = Context(a, c, z, st, k) /\ st \in States /\ InForce(a, c, st, k)
                         /\ ctx[s].impl = a /\ ctx[s].c = c /\ ctx[s].state = st /\ ctx[s].key = k
  BY Given DEF IInv, Ready
<1>2. st # "unkeyed" BY <1>1 DEF Ready
<1> QED BY <1>1, <1>2 DEF InForce

LEMMA EncryptKeeps ==
  ASSUME NEW a \in Invertible, family = {a}, IInv, NEW s \in Slots, NEW in \in Texts, encrypt(s, in) PROVE IInv'
<1>1. in \in Blocks(a) BY Client
<1>2. ctx[s].impl = a /\ ctx[s].key \in SizedKeys(a) /\ ctx[s].c = Keyed(a, ctx[s].key) BY InUse DEF encrypt
<1>3. PICK l : l = Line(ctx[s].key, in, EncryptBlock(ctx[s].impl, ctx[s].c, in)) OBVIOUS
<1>4. IsLine(a, l) BY <1>1, <1>2, <1>3, NewLine
<1>5. Note({l}) BY <1>3 DEF encrypt
<1> QED BY <1>4, <1>5, Noted

LEMMA DecryptKeeps ==
  ASSUME NEW a \in Invertible, family = {a}, IInv, NEW s \in Slots, NEW in \in Received, decrypt(s, in) PROVE IInv'
<1>1. in \in Blocks(a) BY Client
<1>2. ctx[s].impl = a /\ ctx[s].key \in SizedKeys(a) /\ ctx[s].c = Keyed(a, ctx[s].key) BY InUse DEF decrypt
<1>3. PICK l : l = Line(ctx[s].key, DecryptBlock(ctx[s].impl, ctx[s].c, in), in) OBVIOUS
<1>4. IsLine(a, l) BY <1>1, <1>2, <1>3, NewLine
<1>5. Note({l}) BY <1>3 DEF decrypt
<1> QED BY <1>4, <1>5, Noted

LEMMA TwoBlocks ==
  ASSUME NEW a \in Invertible, family = {a}, IInv, NEW s \in Slots, ctx[s].impl = a, NEW in \in Blocks(a)
  PROVE  /\ DOMAIN <<in, Seqs!Reverse(in)>> = {1, 2}
         /\ \A i \in {1, 2} : /\ <<in, Seqs!Reverse(in)>>[i] \in Blocks(a)
                              /\ Reached(s, <<in, Seqs!Reverse(in)>>, i)
<1>1. block_size(a) \in Nat BY BlockSizesAre
<1>2. PICK r \in Blocks(a) : r = Seqs!Reverse(in) BY <1>1, Reversal
<1>3. DOMAIN <<in, r>> = {1, 2} /\ Len(<<in, r>>) = 2 /\ <<in, r>>[1] = in /\ <<in, r>>[2] = r OBVIOUS
<1>4. FastBlocks(a, 2) = 2 BY Direct
<1>5. \A i \in {1, 2} : Reached(s, <<in, r>>, i) BY <1>3, <1>4 DEF Reached
<1> QED BY <1>2, <1>3, <1>5

LEMMA EncryptfastKeeps ==
  ASSUME NEW a \in Invertible, family = {a}, IInv, NEW s \in Slots, NEW in \in Texts,
         encryptfast(s, <<in, Seqs!Reverse(in)>>)
  PROVE  IInv'
<1>1. in \in Blocks(a) BY Client
<1>2. ctx[s].impl = a /\ ctx[s].key \in SizedKeys(a) /\ ctx[s].c = Keyed(a, ctx[s].key) BY InUse DEF encryptfast
<1>3. PICK two : two = <<in, Seqs!Reverse(in)>> OBVIOUS
<1>4. DOMAIN two = {1, 2} /\ \A i \in {1, 2} : two[i] \in Blocks(a) /\ Reached(s, two, i)
  BY <1>1, <1>2, <1>3, TwoBlocks
<1>5. PICK lines : lines = {Line(ctx[s].key, two[i],
                                 IF Reached(s, two, i) THEN EncryptFastBlock(ctx[s].impl, ctx[s].c, two[i])
                                 ELSE two[i]) : i \in DOMAIN two}
  BY Zenon
<1>6. Note(lines) BY <1>3, <1>5 DEF encryptfast
<1>7. ASSUME NEW i \in {1, 2}
      PROVE  IsLine(a, Line(ctx[s].key, two[i], IF Reached(s, two, i)
                                                THEN EncryptFastBlock(ctx[s].impl, ctx[s].c, two[i]) ELSE two[i]))
  <2>1. PICK b \in Blocks(a) : b = two[i] BY <1>4
  <2>2. EncryptFastBlock(a, ctx[s].c, b) = EncryptBlock(a, Keyed(a, ctx[s].key), b) BY <1>2, Direct
  <2>3. IsLine(a, Line(ctx[s].key, b, EncryptBlock(a, Keyed(a, ctx[s].key), b))) BY <1>2, NewLine
  <2> QED BY <1>2, <1>4, <2>1, <2>2, <2>3
<1>8. \A l \in lines : IsLine(a, l) BY <1>4, <1>5, <1>7
<1> QED BY <1>6, <1>8, Noted

LEMMA DecryptfastKeeps ==
  ASSUME NEW a \in Invertible, family = {a}, IInv, NEW s \in Slots, NEW in \in Received,
         decryptfast(s, <<in, Seqs!Reverse(in)>>)
  PROVE  IInv'
<1>1. in \in Blocks(a) BY Client
<1>2. ctx[s].impl = a /\ ctx[s].key \in SizedKeys(a) /\ ctx[s].c = Keyed(a, ctx[s].key) BY InUse DEF decryptfast
<1>3. PICK two : two = <<in, Seqs!Reverse(in)>> OBVIOUS
<1>4. DOMAIN two = {1, 2} /\ \A i \in {1, 2} : two[i] \in Blocks(a) /\ Reached(s, two, i)
  BY <1>1, <1>2, <1>3, TwoBlocks
<1>5. PICK lines : lines = {Line(ctx[s].key,
                                 IF Reached(s, two, i) THEN DecryptFastBlock(ctx[s].impl, ctx[s].c, two[i])
                                 ELSE two[i], two[i]) : i \in DOMAIN two}
  BY Zenon
<1>6. Note(lines) BY <1>3, <1>5 DEF decryptfast
<1>7. ASSUME NEW i \in {1, 2}
      PROVE  IsLine(a, Line(ctx[s].key, IF Reached(s, two, i)
                                        THEN DecryptFastBlock(ctx[s].impl, ctx[s].c, two[i]) ELSE two[i], two[i]))
  <2>1. PICK b \in Blocks(a) : b = two[i] BY <1>4
  <2>2. DecryptFastBlock(a, ctx[s].c, b) = DecryptBlock(a, Keyed(a, ctx[s].key), b) BY <1>2, Direct
  <2>3. IsLine(a, Line(ctx[s].key, DecryptBlock(a, Keyed(a, ctx[s].key), b), b)) BY <1>2, NewLine
  <2> QED BY <1>2, <1>4, <2>1, <2>2, <2>3
<1>8. \A l \in lines : IsLine(a, l) BY <1>4, <1>5, <1>7
<1> QED BY <1>6, <1>8, Noted

LEMMA InvariantKept == IInv /\ [Next]_vars => IInv'
<1> SUFFICES ASSUME IInv, [Next]_vars PROVE IInv' OBVIOUS
<1>1. CASE UNCHANGED vars BY <1>1 DEF vars, IInv, ContextsOf, BookOf
<1>2. CASE Next
  <2>1. family' = family
    <3>1. \A s, a : init(s, a) => family' = family BY DEF init
    <3>2. \A s, key, flags : setkey(s, key, flags) => family' = family BY DEF setkey
    <3>3. \A s, t : clone(s, t) => family' = family BY DEF clone
    <3>4. \A s : reset(s) \/ fini(s) => family' = family BY DEF reset, fini, vars
    <3>5. \A s, in : encrypt(s, in) \/ decrypt(s, in) => family' = family BY DEF encrypt, decrypt, Note
    <3>6. \A s, in : encryptfast(s, in) \/ decryptfast(s, in) => family' = family
      BY DEF encryptfast, decryptfast, Note
    <3> QED BY <1>2, <3>1, <3>2, <3>3, <3>4, <3>5, <3>6, Zenon DEF Next
  <2>2. ASSUME NEW a \in Invertible, family = {a} PROVE IInv'
    <3>1. ASSUME NEW s \in Slots, NEW b \in family, init(s, b) PROVE IInv' BY <2>2, <3>1, InitKeeps
    <3>2. ASSUME NEW s \in Slots, NEW key \in Keys(family), NEW flags \in Flags(family), setkey(s, key, flags)
          PROVE  IInv'
      BY <2>2, <3>2, SetkeyKeeps
    <3>3. ASSUME NEW s \in Slots, NEW t \in Slots, clone(s, t) PROVE IInv' BY <2>2, <3>3, CloneKeeps
    <3>4. ASSUME NEW s \in Slots, reset(s) PROVE IInv'
      BY <3>4 DEF reset, vars, IInv, ContextsOf, BookOf
    <3>5. ASSUME NEW s \in Slots, NEW in \in Texts, encrypt(s, in) PROVE IInv' BY <2>2, <3>5, EncryptKeeps
    <3>6. ASSUME NEW s \in Slots, NEW in \in Received, decrypt(s, in) PROVE IInv' BY <2>2, <3>6, DecryptKeeps
    <3>7. ASSUME NEW s \in Slots, NEW in \in Texts, encryptfast(s, <<in, Seqs!Reverse(in)>>) PROVE IInv'
      BY <2>2, <3>7, EncryptfastKeeps
    <3>8. ASSUME NEW s \in Slots, NEW in \in Received, decryptfast(s, <<in, Seqs!Reverse(in)>>) PROVE IInv'
      BY <2>2, <3>8, DecryptfastKeeps
    <3>9. ASSUME NEW s \in Slots, fini(s) PROVE IInv' BY <2>2, <3>9, FiniKeeps
    <3> QED BY <1>2, <3>1, <3>2, <3>3, <3>4, <3>5, <3>6, <3>7, <3>8, <3>9, Zenon DEF Next
  <2>3. CASE \A a \in Invertible : family # {a} BY <2>1, <2>3 DEF IInv
  <2> QED BY <2>2, <2>3
<1> QED BY <1>1, <1>2

\* decrypt undoes encrypt and encrypt decrypt, for every key of one of the sizes
\* of the cipher and every block, and SetKeyInternal leaves the same schedule
\* whatever the context held: DES, triple DES, Blowfish, TEA, XTEA, SEED, CAST-128
\* and CAST-256, whatever the tables that the source gives as data.
THEOREM DecryptUndoesEncrypt ==
  \A a \in Invertible : \A key \in SizedKeys(a) : \A in \in Blocks(a) : \A c, flags :
    LET k == SetKeyInternal(a, c, key, flags)
    IN  /\ EncryptBlock(a, k, in) \in Blocks(a) /\ DecryptBlock(a, k, EncryptBlock(a, k, in)) = in
        /\ DecryptBlock(a, k, in) \in Blocks(a) /\ EncryptBlock(a, k, DecryptBlock(a, k, in)) = in
<1> SUFFICES ASSUME NEW a \in Invertible, NEW key \in SizedKeys(a), NEW in \in Blocks(a), NEW c, NEW flags
             PROVE  Inverts(a, SetKeyInternal(a, c, key, flags), in)
  BY Zenon DEF Inverts
<1>1. SetKeyInternal(a, c, key, flags) = Keyed(a, key) BY KeyReplaces
<1> QED BY <1>1, AllInvert

\* The invariant holds: a context in use has the schedule of its key and no other
\* (block-plugin.hh, the functions of the table), and every line of the book is a
\* block and what it encrypts to.
THEOREM Invariance == Spec => []IInv
<1>1. Init => IInv
  <2> SUFFICES ASSUME Init, NEW a \in Invertible PROVE ContextsOf(a) /\ BookOf(a)
    BY DEF Init, IInv
  <2>1. ctx = [s \in Slots |-> None] /\ book = {} BY DEF Init
  <2> QED BY <2>1 DEF ContextsOf, BookOf, IsContext
<1> QED BY <1>1, InvariantKept, PTL DEF Spec

Alone == \E a \in Invertible : family = {a}

\* The types of the contexts and of the book, and the sizes of keys and blocks, for
\* a client of one of these ciphers, whatever its keys and its texts.
THEOREM TypeCorrect == Spec => [](Alone => TypeOK)
<1>1. IInv => (Alone => TypeOK)
  <2> SUFFICES ASSUME IInv, NEW a \in Invertible, family = {a} PROVE TypeOK BY DEF Alone
  <2>1. ASSUME NEW s \in Slots, Live(s)
        PROVE  /\ ctx[s].impl \in family /\ ctx[s].state \in States
               /\ ctx[s].state # "unkeyed" => Len(ctx[s].key) \in KeySizes(ctx[s].impl)
    <3>1. PICK c, z, st, k : /\ ctx[s] = Context(a, c, z, st, k) /\ st \in States /\ InForce(a, c, st, k)
                             /\ ctx[s].impl = a /\ ctx[s].c = c /\ ctx[s].state = st /\ ctx[s].key = k
      BY <2>1, Given DEF IInv
    <3> QED BY <3>1 DEF InForce, SizedKeys
  <2>2. ASSUME NEW l \in book, NEW b \in family
        PROVE  Len(l.plain) = block_size(b) /\ Len(l.cipher) = block_size(b)
    <3>1. b = a OBVIOUS
    <3>2. PICK n \in Nat : n = block_size(a) BY BlockSizesAre
    <3>3. l.plain \in Blocks(a) /\ l.cipher \in Blocks(a) BY LineParts DEF IInv, BookOf
    <3>4. \A x \in [1 .. n -> Byte] : Len(x) = n BY FunctionIsSeq
    <3> QED BY <3>1, <3>2, <3>3, <3>4 DEF Blocks
  <2> QED BY <2>1, <2>2 DEF TypeOK
<1> QED BY <1>1, Invariance, PTL

\* A client of one of these ciphers sees one permutation of the blocks under each
\* key: whatever its contexts did before, cloned or not, by the plain or the fast
\* call, in either direction.
THEOREM OnePermutationEach == Spec => [](Alone => OnePermutation)
<1>1. IInv => (Alone => OnePermutation)
  <2> SUFFICES ASSUME IInv, NEW a \in Invertible, family = {a}, NEW l \in book, NEW m \in book, l.key = m.key
               PROVE  (l.plain = m.plain) <=> (l.cipher = m.cipher)
    BY DEF Alone, OnePermutation
  <2>1. IsLine(a, l) /\ IsLine(a, m) BY DEF IInv, BookOf
  <2>2. /\ l.cipher = EncryptBlock(a, Keyed(a, l.key), l.plain)
        /\ l.plain = DecryptBlock(a, Keyed(a, l.key), l.cipher)
    BY <2>1, LineParts
  <2>3. /\ m.cipher = EncryptBlock(a, Keyed(a, m.key), m.plain)
        /\ m.plain = DecryptBlock(a, Keyed(a, m.key), m.cipher)
    BY <2>1, LineParts
  <2> QED BY <2>2, <2>3, Zenon
<1> QED BY <1>1, Invariance, PTL
==============================================================================
