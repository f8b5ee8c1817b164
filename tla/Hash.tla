-------------------------------- MODULE Hash --------------------------------
(***************************************************************************)
(* The functions that src/impl/hash/hash-plugin.hh generates for a hash    *)
(* plugin, over the base class of hash.hh, as a client drives them through *)
(* the states of doc/manual/hash.xml.  The compression function is free: a *)
(* digest is the sequence of the blocks that were transformed, so that two *)
(* digests are equal only if every hash function makes them equal.         *)
(***************************************************************************)
EXTENDS HashBase

CONSTANTS Slots,            \* the contexts of the client
          Byte,             \* the bytes
          Data(_),          \* the data it has for its nth message
          MaxMessages,      \* bound on the calls of init and reset
          MaxCalls          \* bound on the calls of update and updatefast

\* A counter of the code is wider than three bits: BitLength shifts by that.
ASSUME SizesAssumption ==
    /\ BlkSize \in Nat \ {0} /\ FieldSize \in 1 .. BlkSize
    /\ Modulus \in Nat \ {0} /\ Modulus % 8 = 0 /\ Modulus % BlkSize = 0
ASSUME BytesAssumption ==
    /\ Mark \in Byte /\ ZeroByte \in Byte
    /\ \A hi, lo \in 0 .. Modulus-1 : Field(hi, lo) \in [1 .. FieldSize -> Byte]
\* A piece is counted in one word, and there are fewer pieces than a word counts:
\* the two words of m_len never run over.
ASSUME DataAssumption ==
    /\ MaxMessages \in Nat /\ MaxCalls \in 0 .. Modulus-1
    /\ \A n \in 0 .. MaxMessages : \A d \in Data(n) : d \in Seq(Byte) /\ Len(d) < Modulus

VARIABLES state, ctx, out, messages, calls
vars == <<state, ctx, out, messages, calls>>

States == {"UNINITIALIZED", "ALIGNED", "UNALIGNED", "PADDED", "FINISHED"}
Open(s) == state[s] \in {"ALIGNED", "UNALIGNED"}
Live(s) == state[s] # "UNINITIALIZED"

\* After fini the memory is freed, or zero where the client provided it.
Freed == Initialize

Init ==
    /\ state = [s \in Slots |-> "UNINITIALIZED"]
    /\ ctx = [s \in Slots |-> Freed]
    /\ out = [s \in Slots |-> <<>>]
    /\ messages = 0
    /\ calls = 0

init(s) ==
    /\ ~Live(s)
    /\ messages < MaxMessages
    /\ messages' = messages + 1
    /\ state' = [state EXCEPT ![s] = "ALIGNED"]
    /\ ctx' = [ctx EXCEPT ![s] = Initialize]
    /\ UNCHANGED <<out, calls>>

clone(s, t) ==
    /\ Live(s) /\ ~Live(t)
    /\ state' = [state EXCEPT ![t] = state[s]]
    /\ ctx' = [ctx EXCEPT ![t] = ctx[s]]
    /\ UNCHANGED <<out, messages, calls>>

reset(s) ==
    /\ Live(s)
    /\ messages < MaxMessages
    /\ messages' = messages + 1
    /\ state' = [state EXCEPT ![s] = "ALIGNED"]
    /\ ctx' = [ctx EXCEPT ![s] = Initialize]
    /\ UNCHANGED <<out, calls>>

update(s, d) ==
    /\ Open(s)
    /\ calls < MaxCalls
    /\ calls' = calls + 1
    /\ state' = [state EXCEPT ![s] = "UNALIGNED"]
    /\ ctx' = [ctx EXCEPT ![s] = Update(@, d)]
    /\ UNCHANGED <<out, messages>>

\* The client keeps to the manual: whole blocks, and not after an update.
updatefast(s, d) ==
    /\ state[s] = "ALIGNED"
    /\ Len(d) % BlkSize = 0
    /\ calls < MaxCalls
    /\ calls' = calls + 1
    /\ ctx' = [ctx EXCEPT ![s] = UpdateFast(@, d)]
    /\ UNCHANGED <<state, out, messages>>

pad(s) ==
    /\ Open(s)
    /\ state' = [state EXCEPT ![s] = "PADDED"]
    /\ ctx' = [ctx EXCEPT ![s] = Pad(@)]
    /\ UNCHANGED <<out, messages, calls>>

\* GetDigest, with DREW_HASH_NO_PAD in a padded context and without it in an
\* open one.
final(s) ==
    /\ Open(s) \/ state[s] = "PADDED"
    /\ state' = [state EXCEPT ![s] = "FINISHED"]
    /\ ctx' = [ctx EXCEPT ![s] = IF Open(s) THEN Pad(@) ELSE @]
    /\ out' = [out EXCEPT ![s] = ctx'[s].blocks]
    /\ UNCHANGED <<messages, calls>>

fini(s) ==
    /\ Live(s)
    /\ state' = [state EXCEPT ![s] = "UNINITIALIZED"]
    /\ ctx' = [ctx EXCEPT ![s] = Freed]
    /\ UNCHANGED <<out, messages, calls>>

Next ==
    \/ \E s \in Slots : init(s)
    \/ \E s, t \in Slots : clone(s, t)
    \/ \E s \in Slots : reset(s)
    \/ \E s \in Slots, d \in Data(messages) : update(s, d)
    \/ \E s \in Slots, d \in Data(messages) : updatefast(s, d)
    \/ \E s \in Slots : pad(s)
    \/ \E s \in Slots : final(s)
    \/ \E s \in Slots : fini(s)

Spec == Init /\ [][Next]_vars

------------------------------------------------------------------------------
\* A context has a buffer of one block, whole blocks that went to Transform, and
\* two words of length.
TypeOK ==
    /\ state \in [Slots -> States]
    /\ \A s \in Slots :
         /\ Len(ctx[s].buf) = BlkSize
         /\ \A i \in DOMAIN ctx[s].blocks : Len(ctx[s].blocks[i]) = BlkSize
         /\ ctx[s].len \in (0 .. Modulus-1) \X (0 .. Modulus-1)

\* The counter of bytes never loses the blocks that have been transformed: while
\* a context is open, the two words of m_len together count every byte that went
\* into a block and the bytes that wait in the buffer.  Update and UpdateFast
\* notice the carry by the sum coming out smaller than the word was.
LengthCounted ==
    \A s \in Slots : Open(s) =>
        LET k == ctx[s]
        IN  k.len[1] + Modulus * k.len[2] = BlkSize * Len(k.blocks) + (k.len[1] % BlkSize)

\* The bytes of the blocks, one after the other.
BytesOf(blocks) ==
    [i \in 1 .. BlkSize * Len(blocks) |->
        blocks[((i - 1) \div BlkSize) + 1][((i - 1) % BlkSize) + 1]]

\* The bytes a context stands for: the blocks, and while it is open the bytes
\* that wait in the buffer.
Text(s) ==
    BytesOf(ctx[s].blocks)
    \o (IF Open(s) THEN SubSeq(ctx[s].buf, 1, ctx[s].len[1] % BlkSize) ELSE <<>>)

\* The length field of a text of n bytes: 8*n in two words.
LengthField(n) == Field(((8 * n) \div Modulus) % Modulus, (8 * n) % Modulus)

Promise == INSTANCE HashSpec WITH
               Pieces <- UNION {Data(n) : n \in 0 .. MaxMessages},
               text <- [s \in Slots |-> Text(s)],
               digest <- [s \in Slots |-> BytesOf(out[s])]

\* The plugin keeps the promise of the manual: however the data is cut into
\* pieces, whatever an earlier message left in the buffer, by update or
\* updatefast, and through clones and resets, Transform is given the bytes of
\* the message, then the padding for its length, and nothing else.
KeepsPromise == Promise!Spec
==============================================================================
