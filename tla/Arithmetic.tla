----------------------------- MODULE Arithmetic -----------------------------
(***************************************************************************)
(* What the proofs need of the natural numbers: division with remainder,   *)
(* and induction and recursion with sets and functions in place of         *)
(* operators as parameters, so that first-order provers can instantiate    *)
(* them.  The least element of a set of numbers takes the place of the     *)
(* induction principle.                                                    *)
(***************************************************************************)
EXTENDS Integers, WellFoundedInduction, TLAPS

(* Division. *)

\* Division with remainder has one result.
LEMMA Division ==
  ASSUME NEW n \in Nat \ {0}, NEW q \in Int, NEW r \in 0 .. n-1
  PROVE  (n*q + r) \div n = q /\ (n*q + r) % n = r
<1> DEFINE a == n*q + r
<1>1. a \in Int /\ a = n * (a \div n) + (a % n) /\ a % n \in 0 .. n-1 /\ a \div n \in Int
  OBVIOUS
<1> HIDE DEF a
<1>2. PICK p \in Int, m \in 0 .. n-1 : p = a \div n /\ m = a % n BY <1>1
<1>3. n*q + r = n*p + m BY <1>1, <1>2 DEF a
<1>4. n*(q - p) = m - r BY <1>3
<1>5. ASSUME q - p >= 1 PROVE FALSE
  <2>1. n*(q - p) >= n BY <1>5
  <2> QED BY <2>1, <1>4
<1>6. ASSUME q - p <= -1 PROVE FALSE
  <2>1. n*(q - p) <= -n BY <1>6
  <2> QED BY <2>1, <1>4
<1>7. q = p BY <1>5, <1>6
<1> QED BY <1>2, <1>4, <1>7 DEF a

\* And every number has one.
LEMMA DivisionExists ==
  ASSUME NEW n \in Nat \ {0}, NEW a \in Nat
  PROVE  \E q \in Nat, r \in 0 .. n-1 : q = a \div n /\ r = a % n /\ a = n*q + r
<1>1. a \div n \in Int /\ a % n \in 0 .. n-1 /\ a = n * (a \div n) + (a % n)
  OBVIOUS
<1>2. PICK q \in Int, r \in 0 .. n-1 : q = a \div n /\ r = a % n /\ a = n*q + r
  BY <1>1
<1>3. ASSUME q < 0 PROVE FALSE
  <2>1. n * q <= -n BY <1>3
  <2> QED BY <1>2, <2>1
<1>4. q \in Nat BY <1>3
<1> QED BY <1>2, <1>4

\* The first n*p places come before place n*p + 1.
LEMMA TimesMonotonic ==
  ASSUME NEW n \in Nat, NEW p \in Int, NEW q \in Int, p <= q
  PROVE  n*p \in Int /\ n*q \in Int /\ n*p <= n*q /\ n*(p + 1) = n*p + n
<1>1. n * (q - p) >= 0 OBVIOUS
<1>2. n * (q - p) = n*q - n*p OBVIOUS
<1> QED BY <1>1, <1>2

\* The remainder of a sum depends on the remainder of its first term.
LEMMA RemainderOfSum ==
  ASSUME NEW n \in Nat \ {0}, NEW a \in Nat, NEW b \in Nat
  PROVE  ((a % n) + b) % n = (a + b) % n
<1>1. PICK q \in Nat, r \in 0 .. n-1 : q = a \div n /\ r = a % n /\ a = n*q + r
  BY DivisionExists
<1>2. PICK p \in Nat, h \in 0 .. n-1 : p = (r + b) \div n /\ h = (r + b) % n /\ r + b = n*p + h
  BY DivisionExists
<1>3. n*(q + p) = n*q + n*p OBVIOUS
<1>4. PICK x \in Int, y \in Int : x = n*q /\ y = n*p OBVIOUS
<1>5. a = x + r /\ r + b = y + h BY <1>1, <1>2, <1>4
<1>6. a + b = (x + y) + h BY <1>5
<1>7. a + b = n*(q + p) + h BY <1>3, <1>4, <1>6
<1>8. (n*(q + p) + h) % n = h BY Division
<1>9. (a + b) % n = h BY <1>7, <1>8
<1>10. ((a % n) + b) % n = h BY <1>1, <1>2
<1> QED BY <1>9, <1>10

\* A word that counts modulo a multiple of n keeps the remainder by n.
LEMMA RemainderOfWord ==
  ASSUME NEW n \in Nat \ {0}, NEW m \in Nat \ {0}, m % n = 0, NEW a \in Nat
  PROVE  a % m \in 0 .. m-1 /\ (a % m) % n = a % n
<1>1. PICK q \in Nat, r \in 0 .. m-1 : q = a \div m /\ r = a % m /\ a = m*q + r
  BY DivisionExists
<1>2. PICK c \in Nat : m = n*c
  <2>1. PICK p \in Nat, h \in 0 .. n-1 : p = m \div n /\ h = m % n /\ m = n*p + h
    BY DivisionExists
  <2>2. h = 0 BY <2>1
  <2>3. m = n*p BY <2>1, <2>2
  <2> QED BY <2>3
<1>3. PICK p \in Nat, h \in 0 .. n-1 : p = r \div n /\ h = r % n /\ r = n*p + h
  BY DivisionExists
<1>5. a = n*(c*q + p) + h
  <2>1. m*q = n*(c*q) BY <1>2
  <2>2. n*(c*q + p) = n*(c*q) + n*p OBVIOUS
  <2>3. PICK x \in Int, y \in Int : x = n*(c*q) /\ y = n*p OBVIOUS
  <2>4. a = x + r /\ r = y + h BY <1>1, <1>3, <2>1, <2>3
  <2>5. a = (x + y) + h BY <2>4
  <2> QED BY <2>2, <2>3, <2>5
<1>6. c*q + p \in Int OBVIOUS
<1>7. (n*(c*q + p) + h) % n = h BY <1>6, Division
<1> QED BY <1>1, <1>3, <1>5, <1>7

\* The last multiple of n that is not above a.
LEMMA Floor ==
  ASSUME NEW n \in Nat \ {0}, NEW a \in Nat
  PROVE  \E s \in Nat, r \in 0 .. n-1 :
           /\ r = a % n /\ a = s + r /\ a - (a % n) = s
           /\ s % n = 0 /\ s \div n = a \div n
           /\ (n <= a => n <= s)
<1>1. PICK q \in Nat, r \in 0 .. n-1 : q = a \div n /\ r = a % n /\ a = n*q + r BY DivisionExists
<1>2. PICK s \in Nat : s = n*q OBVIOUS
<1>3. a = s + r BY <1>1, <1>2
<1>4. (n*q + 0) % n = 0 /\ (n*q + 0) \div n = q BY Division
<1>5. n*q + 0 = s BY <1>2
<1>6. ASSUME n <= a PROVE n <= s
  <2>1. q # 0
    <3>1. ASSUME q = 0 PROVE FALSE
      <4>1. s = 0 BY <1>2, <3>1
      <4> QED BY <1>3, <1>6, <4>1
    <3> QED BY <3>1
  <2>2. n*1 <= n*q BY <2>1, TimesMonotonic
  <2> QED BY <1>2, <2>2
<1>7. r = a % n /\ s \div n = a \div n BY <1>1, <1>4, <1>5
<1>8. a - r = s BY <1>3
<1>9. s % n = 0 BY <1>4, <1>5
<1> QED BY <1>3, <1>6, <1>7, <1>8, <1>9

----------------------------------------------------------------------------
(* Induction and recursion. *)

Before == {e \in Nat \X Nat : e[1] < e[2]}

\* A set of natural numbers has a least element.
LEMMA Least ==
  ASSUME NEW T, T \subseteq Nat, T # {}
  PROVE  \E n \in T : \A m \in T : n <= m
<1>1. OpToRel(<, Nat) = Before BY DEF OpToRel, Before
<1>2. IsWellFoundedOn(Before, Nat) BY <1>1, NatLessThanWellFounded
<1>3. PICK n \in T : \A m \in T : ~ (<<m, n>> \in Before) BY <1>2, WFMin
<1>4. ASSUME NEW m \in T PROVE n <= m
  <2>1. m \in Nat /\ n \in Nat OBVIOUS
  <2>2. ~ (<<m, n>> \in Before) BY <1>3
  <2>3. ~ (m < n) BY <2>1, <2>2 DEF Before
  <2> QED BY <2>1, <2>3
<1> QED BY <1>4

\* Induction up to m: T is the set of the numbers for which the claim holds.
LEMMA Inductive ==
  ASSUME NEW m \in Nat, NEW T, 0 \in T, \A n \in 0 .. m-1 : n \in T => n+1 \in T
  PROVE  \A n \in 0 .. m : n \in T
<1> SUFFICES ASSUME NEW k \in 0 .. m, k \notin T PROVE FALSE OBVIOUS
<1> DEFINE U == (0 .. m) \ T
<1>0. U \subseteq Nat /\ U # {} OBVIOUS
<1>1. PICK n \in U : \A i \in U : n <= i
  <2> HIDE DEF U
  <2> QED BY <1>0, Least
<1>2. n # 0 /\ n \in 0 .. m BY <1>1
<1>3. n-1 \in 0 .. m-1 BY <1>2
<1>4. n-1 \notin U BY <1>1, <1>3
<1>5. n-1 \in T BY <1>3, <1>4
<1>6. (n-1) + 1 \in T BY <1>3, <1>5
<1>7. n \in T BY <1>2, <1>6
<1> QED BY <1>1, <1>7

\* The same without an upper bound.
LEMMA InductiveNat ==
  ASSUME NEW T, 0 \in T, \A n \in Nat : n \in T => n+1 \in T
  PROVE  \A n \in Nat : n \in T
<1> SUFFICES ASSUME NEW m \in Nat PROVE m \in T OBVIOUS
<1>1. \A n \in 0 .. m-1 : n \in T => n+1 \in T OBVIOUS
<1>2. \A n \in 0 .. m : n \in T BY <1>1, Inductive
<1> QED BY <1>2

\* G is a step that does not leave S, and f on 0 .. m begins with a and takes that step.
StepsIn(m, S, G) == \A i \in 1 .. m : \A s \in S : G[<<s, i>>] \in S
Recursive(f, m, a, G) == f[0] = a /\ \A i \in 1 .. m : f[i] = G[<<f[i-1], i>>]

\* There is such a function.
LEMMA Recursion ==
  ASSUME NEW m \in Nat, NEW S, NEW a \in S, NEW G, StepsIn(m, S, G)
  PROVE  \E f \in [0 .. m -> S] : Recursive(f, m, a, G)
<1> DEFINE T == {n \in 0 .. m : \E f \in [0 .. n -> S] : Recursive(f, n, a, G)}
<1>1. 0 \in T
  <2> DEFINE f == [i \in 0 .. 0 |-> a]
  <2>1. f \in [0 .. 0 -> S] /\ f[0] = a OBVIOUS
  <2>2. Recursive(f, 0, a, G) BY <2>1 DEF Recursive
  <2> HIDE DEF f
  <2> QED BY <2>1, <2>2
<1>2. ASSUME NEW n \in 0 .. m-1, n \in T PROVE n+1 \in T
  <2>1. PICK f \in [0 .. n -> S] : Recursive(f, n, a, G) BY <1>2
  <2> DEFINE g == [i \in 0 .. n+1 |-> IF i <= n THEN f[i] ELSE G[<<f[n], n+1>>]]
  <2>2. n+1 \in 1 .. m /\ f[n] \in S OBVIOUS
  <2>3. G[<<f[n], n+1>>] \in S BY <2>2 DEF StepsIn
  <2>4. g \in [0 .. n+1 -> S] BY <2>3
  <2>5. ASSUME NEW i \in 1 .. n+1 PROVE g[i] = G[<<g[i-1], i>>]
    <3>1. CASE i <= n
      <4>1. i-1 \in 0 .. n /\ i \in 1 .. n BY <3>1
      <4>2. g[i] = f[i] /\ g[i-1] = f[i-1] BY <4>1
      <4>3. f[i] = G[<<f[i-1], i>>] BY <2>1, <4>1 DEF Recursive
      <4> QED BY <4>2, <4>3
    <3>2. CASE i = n+1
      <4>1. g[i] = G[<<f[n], n+1>>] /\ g[i-1] = f[n] BY <3>2
      <4> QED BY <4>1, <3>2
    <3> QED BY <3>1, <3>2
  <2>6. g[0] = a BY <2>1 DEF Recursive
  <2>7. Recursive(g, n+1, a, G) BY <2>5, <2>6 DEF Recursive
  <2>8. n+1 \in 0 .. m OBVIOUS
  <2> HIDE DEF g
  <2> QED BY <2>4, <2>7, <2>8
<1>3. \A n \in 0 .. m : n \in T BY <1>1, <1>2, Inductive
<1>4. m \in T
  <2> HIDE DEF T
  <2> QED BY <1>3
<1> QED BY <1>4

\* And only one.
LEMMA SameRecursion ==
  ASSUME NEW m \in Nat, NEW f, NEW g, NEW a, NEW G, Recursive(f, m, a, G), Recursive(g, m, a, G)
  PROVE  \A n \in 0 .. m : f[n] = g[n]
<1> DEFINE T == {n \in 0 .. m : f[n] = g[n]}
<1>1. 0 \in T BY DEF Recursive
<1>2. ASSUME NEW n \in 0 .. m-1, n \in T PROVE n+1 \in T
  <2>1. n+1 \in 1 .. m /\ (n+1)-1 = n OBVIOUS
  <2>2. f[n] = g[n] BY <1>2
  <2>3. f[n+1] = g[n+1] BY <2>1, <2>2 DEF Recursive
  <2> QED BY <2>1, <2>3
<1>3. \A n \in 0 .. m : n \in T BY <1>1, <1>2, Inductive
<1> QED BY <1>3

\* A recursive definition stays in a set that its steps do not leave.
LEMMA TypedRecursion ==
  ASSUME NEW m \in Nat, NEW S, NEW f, f = [i \in 0 .. m |-> f[i]], f[0] \in S,
         \A i \in 1 .. m : f[i-1] \in S => f[i] \in S
  PROVE  f \in [0 .. m -> S]
<1> DEFINE T == {n \in 0 .. m : f[n] \in S}
<1>1. 0 \in T OBVIOUS
<1>2. ASSUME NEW n \in 0 .. m-1, n \in T PROVE n+1 \in T
  <2>1. n+1 \in 1 .. m /\ (n+1)-1 = n OBVIOUS
  <2>2. f[n] \in S BY <1>2
  <2>3. f[n+1] \in S BY <2>1, <2>2
  <2> QED BY <2>1, <2>3
<1>3. \A n \in 0 .. m : n \in T BY <1>1, <1>2, Inductive
<1>4. \A n \in 0 .. m : f[n] \in S BY <1>3
<1> QED BY <1>4
==============================================================================
