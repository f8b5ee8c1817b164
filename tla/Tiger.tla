-------------------------------- MODULE Tiger --------------------------------
(***************************************************************************)
(* The compression function of Tiger, src/impl/hash/tiger/tiger.cc.  Its   *)
(* padding is in Digests.                                                  *)
(***************************************************************************)
EXTENDS Words

CONSTANT Table(_, _, _)

t1(x) == Table(64, 1111, x)
t2(x) == Table(64, 1112, x)
t3(x) == Table(64, 1113, x)
t4(x) == Table(64, 1114, x)
t(i, x) == CASE i = 1 -> t1(x) [] i = 2 -> t2(x) [] i = 3 -> t3(x) [] i = 4 -> t4(x)

Reset == <<Hex64(\h0123, \h4567, \h89ab, \hcdef), Hex64(\hfedc, \hba98, \h7654, \h3210),
           Hex64(\hf096, \ha5b4, \hc3b2, \he187)>>

\* b * k for the multipliers 5, 7 and 9 of the passes.
Scaled(b, k) == CASE k = 5 -> Plus(64, b, Shl(64, b, 2))
                  [] k = 7 -> Minus(64, Shl(64, b, 3), b)
                  [] k = 9 -> Plus(64, b, Shl(64, b, 3))

\* Round on v = <<a, b, c>> with c crossed already, followed by the renaming for
\* the next one.
Crossed(v, c, k) ==
    <<Scaled(Plus(64, v[2], XorOf([i \in 0 .. 3 |-> t(4 - i, GetByte(c, 2*i + 1))])), k), c,
      Minus(64, v[1], XorOf([i \in 0 .. 3 |-> t(i + 1, GetByte(c, 2*i))]))>>
Round(v, x, k) == Crossed(v, Xor(v[3], x), k)

\* Eight rounds end with the names c, a, b: the order in which the code names them
\* in its next call of Pass.
Pass(x, v, k) ==
    LET go[i \in 1 .. 9, w \in Seq(Word(64))] == IF i > 8 THEN w ELSE go[i+1, Round(w, x[i], k)]
    IN  go[1, v]

\* Statement n of Schedule: x[i] -= v ^ e, x[i] ^= v or x[i] += v in turn, with v the
\* word before x[i] and e made from the one before that.
Extra(n, y) == CASE n = 1 -> Hex64(\ha5a5, \ha5a5, \ha5a5, \ha5a5)
                 [] n \in {4, 10} -> Shl(64, Not(64, y), 19)
                 [] n \in {7, 13} -> Shr(Not(64, y), 23)
                 [] n = 16 -> Hex64(\h0123, \h4567, \h89ab, \hcdef)
Statement(n, x, v, y) == CASE n % 3 = 1 -> Minus(64, x, Xor(v, Extra(n, y)))
                           [] n % 3 = 2 -> Xor(x, v)
                           [] n % 3 = 0 -> Plus(64, x, v)
At(x, n) == x[((n - 1) % 8) + 1]
Schedule(x0) ==
    LET go[n \in 1 .. 17, x \in Seq(Word(64))] ==
            IF n > 16 THEN x
            ELSE go[n+1, [x EXCEPT ![((n - 1) % 8) + 1] = Statement(n, @, At(x, n - 1), At(x, n - 2))]]
    IN  go[1, x0]

\* The passes over the words x and the scheduled words y of a block.
Passes(state, x, y) == Pass(Schedule(y), Pass(y, Pass(x, state, 5), 7), 9)
Fed(state, v) == <<Xor(v[1], state[1]), Minus(64, v[2], state[2]), Plus(64, v[3], state[3])>>
Words8(block) == SubSeq(WordsLE(8, block), 1, 8)
Transform(state, block) ==
    Fed(state, Passes(state, Words8(block), Schedule(Words8(block))))
==============================================================================
