------------------------------ MODULE HashSpec ------------------------------
(***************************************************************************)
(* What a hash plugin promises its client, after doc/manual/hash.xml: a    *)
(* context holds a text.  update and updatefast append to it, pad appends  *)
(* the padding, and final delivers the digest of the padded text.  Clones  *)
(* are independent and reset begins again.  The digest is represented by   *)
(* the padded text it is the digest of.                                    *)
(***************************************************************************)
EXTENDS Integers, Sequences

CONSTANTS Slots, Pieces, BlkSize, FieldSize, Mark, ZeroByte,
          LengthField(_)        \* the bytes of the length field, from a number of bytes

VARIABLES state, text, digest
vars == <<state, text, digest>>

\* The fewest zeros that make the padded text a number of blocks.
Padding(n) ==
    LET fits(z) == (n + 1 + z + FieldSize) % BlkSize = 0
        z == CHOOSE i \in 0 .. BlkSize-1 : fits(i)
    IN  <<Mark>> \o [i \in 1 .. z |-> ZeroByte] \o LengthField(n)
Padded(t) == t \o Padding(Len(t))

Open(s) == state[s] \in {"ALIGNED", "UNALIGNED"}

Init ==
    /\ state = [s \in Slots |-> "UNINITIALIZED"]
    /\ text = [s \in Slots |-> <<>>]
    /\ digest = [s \in Slots |-> <<>>]

init(s) ==
    /\ state[s] = "UNINITIALIZED"
    /\ state' = [state EXCEPT ![s] = "ALIGNED"]
    /\ UNCHANGED <<text, digest>>

clone(s, t) ==
    /\ state[s] # "UNINITIALIZED" /\ state[t] = "UNINITIALIZED"
    /\ state' = [state EXCEPT ![t] = state[s]]
    /\ text' = [text EXCEPT ![t] = text[s]]
    /\ UNCHANGED digest

reset(s) ==
    /\ state[s] # "UNINITIALIZED"
    /\ state' = [state EXCEPT ![s] = "ALIGNED"]
    /\ text' = [text EXCEPT ![s] = <<>>]
    /\ UNCHANGED digest

update(s, d) ==
    /\ Open(s)
    /\ state' = [state EXCEPT ![s] = "UNALIGNED"]
    /\ text' = [text EXCEPT ![s] = @ \o d]
    /\ UNCHANGED digest

updatefast(s, d) ==
    /\ state[s] = "ALIGNED"
    /\ Len(d) % BlkSize = 0
    /\ text' = [text EXCEPT ![s] = @ \o d]
    /\ UNCHANGED <<state, digest>>

pad(s) ==
    /\ Open(s)
    /\ state' = [state EXCEPT ![s] = "PADDED"]
    /\ text' = [text EXCEPT ![s] = Padded(@)]
    /\ UNCHANGED digest

final(s) ==
    /\ Open(s) \/ state[s] = "PADDED"
    /\ state' = [state EXCEPT ![s] = "FINISHED"]
    /\ text' = [text EXCEPT ![s] = IF Open(s) THEN Padded(@) ELSE @]
    /\ digest' = [digest EXCEPT ![s] = text'[s]]

fini(s) ==
    /\ state[s] # "UNINITIALIZED"
    /\ state' = [state EXCEPT ![s] = "UNINITIALIZED"]
    /\ text' = [text EXCEPT ![s] = <<>>]
    /\ UNCHANGED digest

Next ==
    \E s \in Slots :
        \/ init(s) \/ reset(s) \/ pad(s) \/ final(s) \/ fini(s)
        \/ \E t \in Slots : clone(s, t)
        \/ \E d \in Pieces : update(s, d) \/ updatefast(s, d)

Spec == Init /\ [][Next]_vars
==============================================================================
