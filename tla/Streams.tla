------------------------------ MODULE Streams ------------------------------
(***************************************************************************)
(* The keystream generators of the stream ciphers (impl/stream): what      *)
(* SetKey, SetNonce and Reset make of them, and FillBuffer.  The core      *)
(* functions, from Salsa20's DoHash to Rabbit's Iterate, are parameters;   *)
(* RC4 is here as a whole, over n values.                                  *)
(*                                                                         *)
(* "salsa20" stands for Salsa20 and ChaCha, "hc" for HC-128 and HC-256.    *)
(***************************************************************************)
EXTENDS Integers

CONSTANTS
  Core(_, _, _),  \* DoHash: n bytes out of a nonce and a counter
  NCtr,           \* 2^64: the values of the counter
  GenStates,      \* the states of the other generators
  Expand(_),      \* the state SetNonce of HC and Sosemanuk makes of an iv
  KeyState,       \* the state SetKey of Rabbit makes
  Mix(_, _),      \* Rabbit's SetNonce: an iv into a state
  Advance(_),     \* the state after FillBuffer
  Yield(_, _),    \* and the n bytes it gives
  Rc4KeySize,
  Rc4Key          \* 0 .. Rc4KeySize - 1 -> Nat

StreamModes == {"salsa20", "hc", "sosemanuk", "rabbit", "rc4"}

----------------------------------------------------------------------------
(* RC4. *)

Swap(s, a, b) == [s EXCEPT ![a] = s[b], ![b] = s[a]]

(* RC4Keystream::SetKey *)
Rc4SetKey(n) ==
  LET step[i \in 0 .. n] ==
        IF i = 0 THEN [s |-> [k \in 0 .. n - 1 |-> k], j |-> 0]
        ELSE LET p == step[i - 1]
                 j == (p.j + p.s[i - 1] + Rc4Key[(i - 1) % Rc4KeySize]) % n IN
             [s |-> Swap(p.s, i - 1, j), j |-> j] IN
  [s |-> step[n].s, i |-> 0, j |-> 0]

(* One byte with the index i, and the state after it. *)
ByteAt(n, ks, i) ==
  LET j == (ks.j + ks.s[i]) % n
      s == Swap(ks.s, i, j) IN
  [byte |-> s[(s[i] + s[j]) % n], ks |-> [ks EXCEPT !.s = s, !.j = j]]

(* GetValue takes the index after the last. *)
GetValue(n, ks) == LET i == (ks.i + 1) % n IN ByteAt(n, [ks EXCEPT !.i = i], i)
Values(n, m, ks) ==
  LET run[k \in 0 .. m] ==
        IF k = 0 THEN [byte |-> 0, ks |-> ks] ELSE GetValue(n, run[k - 1].ks) IN
  run

(* FillBuffer begins at s[0], and leaves the index alone. *)
Rc4Fill(n, ks) ==
  LET run[k \in 0 .. n] ==
        IF k = 0 THEN [byte |-> 0, ks |-> ks] ELSE ByteAt(n, run[k - 1].ks, k - 1) IN
  [buf |-> [k \in 0 .. n - 1 |-> run[k + 1].byte], ks |-> run[n].ks]

(* RC4::Reset: drop bytes are skipped; the next ones wait in the buffer b,  *)
(* from where they would be had none been skipped.                          *)
Rc4Reset(n, drop, b) ==
  LET at == drop % n
      run == Values(n, drop + n - at, Rc4SetKey(n)) IN
  [buf |-> [k \in DOMAIN b |-> IF at <= k /\ k < n THEN run[drop + k - at + 1].byte ELSE b[k]],
   left |-> n - at,
   ks |-> run[drop + n - at].ks]

----------------------------------------------------------------------------
(* SetNonce: Salsa20 and ChaCha keep the counter, Rabbit goes on from the   *)
(* state it is in.                                                          *)
SetNonce(mode, ks, v) ==
  CASE mode = "salsa20" -> [ks EXCEPT !.nonce = v]
    [] mode \in {"hc", "sosemanuk"} -> Expand(v)
    [] mode = "rabbit" -> Mix(ks, v)

(* Reset, with the key and the nonce there are: the generator, the buffer   *)
(* and how many bytes of it are left.                                       *)
ResetStream(mode, n, drop, b, v) ==
  CASE mode = "salsa20" -> [buf |-> b, left |-> 0, ks |-> [nonce |-> v, ctr |-> 0]]
    [] mode \in {"hc", "sosemanuk"} -> [buf |-> b, left |-> 0, ks |-> Expand(v)]
    [] mode = "rabbit" -> [buf |-> b, left |-> 0, ks |-> Mix(KeyState, v)]
    [] mode = "rc4" -> Rc4Reset(n, drop, b)

(* FillBuffer and FillBufferAligned. *)
FillBuffer(mode, n, ks) ==
  CASE mode = "salsa20" -> [buf |-> Core(n, ks.nonce, ks.ctr),
                            ks |-> [ks EXCEPT !.ctr = (@ + 1) % NCtr]]
    [] mode \in {"hc", "sosemanuk", "rabbit"} -> [buf |-> Yield(n, ks), ks |-> Advance(ks)]
    [] mode = "rc4" -> Rc4Fill(n, ks)

----------------------------------------------------------------------------
(* The keystream by its definition: byte i of it. *)
Generator(mode, v) == IF mode = "rabbit" THEN Mix(KeyState, v) ELSE Expand(v)
Later(ks, m) == LET g[k \in 0 .. m] == IF k = 0 THEN ks ELSE Advance(g[k - 1]) IN g[m]
Keystream(mode, n, drop, v, i) ==
  CASE mode = "salsa20" -> Core(n, v, (i \div n) % NCtr)[i % n]
    [] mode \in {"hc", "sosemanuk", "rabbit"} -> Yield(n, Later(Generator(mode, v), i \div n))[i % n]
    [] mode = "rc4" -> Values(n, drop + i + 1, Rc4SetKey(n))[drop + i + 1].byte
=============================================================================
