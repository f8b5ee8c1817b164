------------------------------- MODULE Modes -------------------------------
(***************************************************************************)
(* The block cipher modes CFB, OFB, CTR, CBC and GCM (impl/mode), from     *)
(* setiv on: one context, and a client that cuts a message into calls of   *)
(* any length.  All but CBC share one shape: a call first uses up what is  *)
(* left of the keystream block in buf (Head), then handles whole units     *)
(* (Block), then starts one more (Tail).  The fast entry points work on    *)
(* DREW_MODE_ALIGNMENT bytes, or on a buffer of 4096 bytes, at a time.     *)
(* GCM also authenticates: setdata before the message, and a tag at the    *)
(* end of its final call.  The stream ciphers (impl/stream) have the same  *)
(* shape, in CopyAndXor and CopyAndXorAligned of include/util.hh; their    *)
(* generators are in Streams.                                              *)
(*                                                                         *)
(* The cipher and the exclusive or are parameters.  Arrays of bytes are    *)
(* functions from 0; `reg' is the field that chains blocks: cfb.prev,      *)
(* ctr.ctr, gcm.y, cbc.buf (OFB chains through buf itself).  Input and     *)
(* output do not overlap.                                                  *)
(***************************************************************************)
EXTENDS Integers, Streams

CONSTANTS
  NByte,             \* 256: the values of a byte
  XorByte(_, _),     \* on bytes
  Enc(_),            \* the block cipher: blocks are functions 0 .. n-1 -> Byte
  Dec(_),
  MulBlock(_, _, _), \* c->mul, by its name, of h and a block
  Product(_, _),     \* the product of two blocks in the field of GCM
  LenBlock(_, _),    \* the block of two lengths, in bits
  CtrBytes,          \* 4: the bytes of a GCM block that count
  AadBytes,          \* what setdata is given the beginning of
  MaxAad,            \* bound: bytes of it
  Align,             \* DREW_MODE_ALIGNMENT
  FastBuf,           \* 4096: the local buffers of the fast functions
  Configs,           \* contexts: records [mode, blksize, feedback, taglen, mul, drop]
  Dirs,              \* what the context is used for: "enc", "dec"
  IVs,               \* the values setiv is called with, long enough for any block
  IvLens(_),         \* and their lengths: that of a block, but for GCM
  NewIVs,            \* those it is called with again, later
  Messages,          \* what the clients encrypt or decrypt
  MaxLen,            \* bound: bytes of a message
  MaxWrong,          \* bound: bytes of one that has gone wrong
  MaxCall,           \* bound: bytes of a plain call
  MaxFast            \* bound: bytes of a fast call

Byte == 0 .. NByte - 1
Idx == 0 .. MaxLen - 1
Cells == 0 .. 2 * Align - 1     \* buf[32], prev[32], ctr[32]
Aad == 0 .. MaxAad - 1
Modes == {"cfb", "ofb", "ctr", "cbc", "gcm"} \cup StreamModes

ASSUME SizesAssumption ==
  /\ NByte \in Nat \ {0, 1} /\ Align \in Nat \ {0} /\ FastBuf \in Nat \ {0}
  /\ MaxLen \in Nat \ {0} /\ MaxCall \in Nat /\ MaxFast \in Nat /\ MaxWrong \in Nat
  /\ CtrBytes \in Nat \ {0} /\ CtrBytes < Align /\ MaxAad \in Nat
  /\ FastBuf % Align = 0 /\ Dirs \subseteq {"enc", "dec"}
ASSUME ConfigsAssumption ==
  \A c \in Configs :
    /\ c.mode \in Modes /\ c.blksize \in 1 .. 2 * Align /\ c.feedback \in 1 .. c.blksize
    /\ c.mode # "cfb" => c.feedback = c.blksize
    /\ c.mode = "gcm" => c.blksize = Align /\ c.taglen \in 1 .. Align
    /\ c.mode = "rc4" => c.blksize <= NByte /\ c.drop \in Nat
    /\ IvLens(c) \subseteq 1 .. 2 * Align
    /\ c.mode # "gcm" => IvLens(c) = {c.blksize}
ASSUME DataAssumption ==
  /\ IVs \subseteq [Cells -> Byte] /\ NewIVs \subseteq [Cells -> Byte]
  /\ Messages \subseteq [Idx -> Byte] /\ AadBytes \in [Aad -> Byte]
ASSUME XorAssumption ==
  \A a \in Byte, b \in Byte :
    /\ XorByte(a, b) \in Byte /\ XorByte(a, b) = XorByte(b, a)
    /\ XorByte(XorByte(a, b), b) = a /\ XorByte(a, 0) = a
ASSUME CipherAssumption ==
  \A c \in Configs : \A x \in [0 .. c.blksize - 1 -> Byte] :
    /\ Enc(x) \in [0 .. c.blksize - 1 -> Byte] /\ Dec(x) \in [0 .. c.blksize - 1 -> Byte]
    /\ Dec(Enc(x)) = x /\ Enc(Dec(x)) = x
    /\ c.mode = "gcm" => \A h \in [0 .. c.blksize - 1 -> Byte] :
         MulBlock(c.mul, h, x) \in [0 .. c.blksize - 1 -> Byte]
ASSUME FieldAssumption ==
  \A c \in Configs : c.mode = "gcm" =>
    \A g, h, x \in [0 .. c.blksize - 1 -> Byte] :
      /\ MulBlock(c.mul, h, x) = Product(h, x)
      /\ Product(Product(g, h), x) = Product(h, Product(g, x))
      /\ Product(g, [k \in 0 .. c.blksize - 1 |-> XorByte(h[k], x[k])]) =
         [k \in 0 .. c.blksize - 1 |-> XorByte(Product(g, h)[k], Product(g, x)[k])]
ASSUME StreamAssumption ==
  /\ NCtr \in Nat \ {0} /\ KeyState \in GenStates
  /\ Rc4KeySize \in Nat \ {0} /\ Rc4Key \in [0 .. Rc4KeySize - 1 -> Nat]
  /\ \A v \in [Cells -> Byte] : Expand(v) \in GenStates
  /\ \A g \in GenStates : Advance(g) \in GenStates
  /\ \A g \in GenStates, v \in [Cells -> Byte] : Mix(g, v) \in GenStates
  /\ \A c \in Configs : \A g \in GenStates : Yield(c.blksize, g) \in [0 .. c.blksize - 1 -> Byte]
  /\ \A c \in Configs : \A v \in [Cells -> Byte], d \in 0 .. NCtr - 1 :
       Core(c.blksize, v, d) \in [0 .. c.blksize - 1 -> Byte]
ASSUME LengthAssumption ==
  \A a \in 0 .. MaxAad, n \in 0 .. MaxLen + 2 * Align :
    LenBlock(a, n) \in [0 .. Align - 1 -> Byte]

VARIABLES
  cf,     \* the context's mode, blksize and feedback
  dir,    \* "enc" or "dec": the two are not mixed on one context
  iv,     \* c->iv
  ivlen,  \* c->ivlen
  reg,    \* c->prev, c->ctr or (cbc) c->buf
  buf,    \* c->buf
  boff,   \* c->boff
  auth,   \* c->y0, c->x, c->cbuf, c->alen and c->clen of GCM
  ks,     \* m_ks, the generator of a stream cipher
  left,   \* m_nbytes: what is left of m_buf (here buf)
  tag,    \* the tag the last final call made, cut to taglen bytes
  in,     \* the message
  out,    \* the bytes written so far
  pos,    \* how many of them there are
  src,    \* where the call in progress reads next
  end,    \* where the call in progress ends
  fin,    \* 1 while the call in progress is the final one of GCM
  pc,     \* "idle", or where the call in progress is
  slow,   \* 1 once a plain call was made since setiv
  clean   \* 0 once something was done that the code gets wrong

ctxVars == <<reg, buf, boff>>
streamVars == <<ks, left>>
msgVars == <<cf, dir, iv, ivlen, in>>
callVars == <<src, end, fin>>
vars == <<msgVars, ctxVars, auth, streamVars, tag, out, pos, callVars, pc, slow, clean>>

unit == cf.feedback
IsStream == cf.mode \in StreamModes
leftover == cf.blksize - cf.feedback
Block0 == 0 .. cf.blksize - 1

(* The first n cells of f are replaced by those of g. *)
Over(f, g, n) == [k \in DOMAIN f |-> IF k < n THEN g[k] ELSE f[k]]
At(f, o) == [k \in Block0 |-> f[o + k]]

Lesser(m, n) == IF m < n THEN m ELSE n

----------------------------------------------------------------------------
(* GHASH, the authentication of GCM. *)

ZeroBlock == [k \in Block0 |-> 0]
XorBlock(x, y) == [k \in Block0 |-> XorByte(x[k], y[k])]
H == Enc(ZeroBlock)             \* c->h
hash(x, block) == MulBlock(cf.mul, H, XorBlock(x, block))

(* The blocks f[0] .. f[m - 1]. *)
hash_blocks(x, m, f) ==
  LET acc[i \in 0 .. m] == IF i = 0 THEN x ELSE hash(acc[i - 1], f[i - 1]) IN acc[m]

(* The block at offset o of the n bytes in v, filled up with zeros. *)
Padded(v, n, o) == [k \in Block0 |-> IF o + k < n THEN v[o + k] ELSE 0]

(* gcm_setiv: an iv of 12 bytes is the counter block but for the counter.   *)
(* Any other is hashed, and allowed with a whole tag only.                  *)
ShortIv == cf.blksize - CtrBytes
Refused(n) == cf.mode = "gcm" /\ n # ShortIv /\ cf.taglen # cf.blksize
HashedIv(v, n) ==
  LET m == (n + cf.blksize - 1) \div cf.blksize IN
  hash(hash_blocks(ZeroBlock, m, [i \in 0 .. m - 1 |-> Padded(v, n, i * cf.blksize)]), LenBlock(0, n))
Y0(v, n) ==
  CASE Refused(n) -> ZeroBlock
    [] n = ShortIv -> [Padded(v, n, 0) EXCEPT ![cf.blksize - 1] = 1]
    [] OTHER -> HashedIv(v, n)
IvBuffer(n) == IF Refused(n) \/ n = ShortIv THEN ZeroBlock ELSE LenBlock(0, n)

(* auth once setiv is done.  One that is refused leaves the lengths alone.  *)
FreshAuth(v, n, alen, clen) ==
  [y0 |-> Y0(v, n), x |-> ZeroBlock, cbuf |-> ZeroBlock,
   alen |-> IF Refused(n) THEN alen ELSE 0, clen |-> IF Refused(n) THEN clen ELSE 0]

----------------------------------------------------------------------------
NoTag == <<>>

(* What setiv of a block mode writes: the n bytes of v into reg and buf; in *)
(* GCM the first counter into y, and into buf the last block it hashed.     *)
IvReg(r, v, n) ==
  CASE IsStream -> r
    [] cf.mode = "gcm" -> Over(r, Y0(v, n), cf.blksize)
    [] OTHER -> Over(r, v, n)
IvBuf(b, v, n) ==
  CASE IsStream -> b
    [] cf.mode = "gcm" -> Over(b, IvBuffer(n), cf.blksize)
    [] OTHER -> Over(b, v, n)

(* A stream cipher as Reset leaves it. *)
Restarted(b, v) == ResetStream(cf.mode, cf.blksize, cf.drop, b, v)

(* The state after init, setblock or setkey, and a setiv that succeeded.    *)
(* The memory of a context is not cleared by cfb_init, ofb_init and the     *)
(* constructors of the stream ciphers.                                      *)
Init ==
  /\ cf \in Configs /\ dir \in Dirs /\ iv \in IVs /\ in \in Messages
  /\ ivlen \in IvLens(cf) /\ ~Refused(ivlen)
  /\ \E g \in Byte :
       LET old == [k \in Cells |-> g] IN
       /\ reg = IvReg(old, iv, ivlen)
       /\ buf = IF IsStream THEN Restarted(old, iv).buf ELSE IvBuf(old, iv, ivlen)
       /\ ks = IF IsStream THEN Restarted(old, iv).ks ELSE <<>>
       /\ left = IF IsStream THEN Restarted(old, iv).left ELSE 0
  /\ auth = IF cf.mode = "gcm" THEN FreshAuth(iv, ivlen, 0, 0) ELSE <<>>
  /\ boff = 0 /\ pos = 0 /\ src = 0 /\ end = 0 /\ fin = 0 /\ tag = NoTag
  /\ out = [i \in Idx |-> 0]
  /\ pc = "idle" /\ slow = 0 /\ clean = 1

(* The client starts a message over, with an empty output. *)
NewMessage ==
  /\ pc \in {"idle", "done"} /\ pc' = "idle"
  /\ pos' = 0 /\ slow' = 0 /\ out' = [i \in Idx |-> 0] /\ tag' = NoTag
  /\ UNCHANGED <<cf, dir, in, callVars>>

LoadIv(v, n) ==
  /\ reg' = IvReg(reg, v, n)
  /\ auth' = IF cf.mode = "gcm" THEN FreshAuth(v, n, auth.alen, auth.clen) ELSE auth

(* Whether a stream cipher is where a new message begins.  Rabbit needs a   *)
(* reset to be there.                                                       *)
AtStart == left = 0 /\ cf.mode # "rabbit" /\ (cf.mode = "salsa20" => ks.ctr = 0)

(* cfb_setiv, ofb_setiv, ctr_setiv, cbc_setiv, gcm_setiv and SetNonce of    *)
(* the stream ciphers: a new message; the position within the block is      *)
(* kept.  RC4 has no iv.                                                    *)
SetIv(v, n) ==
  /\ NewMessage /\ cf.mode # "rc4"
  /\ iv' = v /\ ivlen' = n
  /\ LoadIv(v, n)
  /\ buf' = IvBuf(buf, v, n)
  /\ ks' = IF IsStream THEN SetNonce(cf.mode, ks, v) ELSE ks
  /\ clean' = IF boff = 0 /\ ~Refused(n) /\ (IsStream => AtStart) THEN 1 ELSE 0
  /\ UNCHANGED <<boff, left>>

Restart ==
  IF IsStream
  THEN /\ buf' = Restarted(buf, iv).buf
       /\ ks' = Restarted(buf, iv).ks
       /\ left' = Restarted(buf, iv).left
  ELSE buf' = IvBuf(buf, iv, ivlen) /\ UNCHANGED streamVars

(* Mutant of Reset: the position within the block is kept. *)
Reset_KeepsOffset ==
  /\ NewMessage
  /\ LoadIv(iv, ivlen)
  /\ Restart
  /\ clean' = IF Refused(ivlen) THEN 0 ELSE 1
  /\ UNCHANGED <<iv, ivlen, boff>>

(* cfb_reset, ofb_reset, ctr_reset, cbc_reset, gcm_reset and Reset of the   *)
(* stream ciphers: the old iv and no offset.                                *)
Reset ==
  /\ NewMessage
  /\ LoadIv(iv, ivlen)
  /\ Restart
  /\ boff' = IF Refused(ivlen) THEN boff ELSE 0
  /\ clean' = IF Refused(ivlen) THEN 0 ELSE 1
  /\ UNCHANGED <<iv, ivlen>>

(* The client goes on with a clone.  That of Salsa20 or ChaCha has a copy   *)
(* of the generator only: its buffer and count are what was in the memory.  *)
Clone ==
  /\ pc = "idle" /\ cf.mode = "salsa20"
  /\ \E g \in Byte : buf' = [k \in Cells |-> g]
  /\ left' \in 0 .. cf.blksize + 1
  /\ clean' = 0
  /\ UNCHANGED <<msgVars, reg, boff, auth, ks, tag, out, pos, callVars, pc, slow>>

(* gcm_setdata, before the message.  The last block is hashed even when     *)
(* there is nothing in it.                                                  *)
SetData(n) ==
  /\ pc = "idle" /\ cf.mode = "gcm" /\ pos = 0 /\ slow = 0
  /\ LET m == n \div cf.blksize
         blocks == [i \in 0 .. m |-> Padded(AadBytes, n, i * cf.blksize)] IN
       /\ auth' = [auth EXCEPT !.alen = n, !.x = hash_blocks(ZeroBlock, m + 1, blocks)]
       /\ buf' = Over(buf, blocks[m], cf.blksize)
  /\ clean' = IF n # 0 /\ n % cf.blksize = 0 THEN 0 ELSE clean
  /\ UNCHANGED <<msgVars, reg, boff, streamVars, tag, out, pos, callVars, pc, slow>>

----------------------------------------------------------------------------
(* The plain functions. *)

(* n more bytes: c->clen += len.  A setiv that is refused does not clear it. *)
Fits(n) ==
  /\ pos + n <= MaxLen /\ (clean = 0 => pos + n <= MaxWrong)
  /\ cf.mode = "gcm" => auth.clen + n <= MaxLen
Counted(n) == IF cf.mode = "gcm" THEN [auth EXCEPT !.clen = @ + n] ELSE auth

(* encrypt or decrypt (or the final ones, which only GCM has of its own) of *)
(* n bytes.                                                                 *)
Call(n, f) ==
  /\ pc = "idle" /\ Fits(n)
  /\ cf.mode = "cbc" => n % cf.blksize = 0
  /\ f = 1 => cf.mode = "gcm"
  /\ end' = pos + n /\ src' = pos /\ fin' = f
  /\ auth' = Counted(n)
  /\ slow' = 1
  /\ pc' = IF cf.mode = "cbc" THEN "cbc" ELSE IF boff # 0 \/ left # 0 THEN "head" ELSE "body"
  /\ UNCHANGED <<msgVars, ctxVars, streamVars, tag, out, pos, clean>>

(* cbc_encrypt and cbc_decrypt of a length that is no multiple of a block,  *)
(* and gcm_encryptfinal without room for the tag.                           *)
Refuse(n) ==
  /\ pc = "idle"
  /\ \/ cf.mode = "cbc" /\ n % cf.blksize # 0
     \/ cf.mode = "gcm" /\ dir = "enc" /\ \E outlen \in 0 .. MaxCall : outlen < n + cf.taglen
  /\ UNCHANGED vars

(* The call returns. *)
Done == pc' = (IF fin = 1 THEN "final" ELSE "idle") /\ end' = 0 /\ src' = 0 /\ fin' = 0

(* Mutant of increment_counter: the carry stops after one byte. *)
increment_counter_OneCarry(c, n) ==
  [k \in DOMAIN c |-> IF k = n - 1 \/ (k = n - 2 /\ c[n - 1] = NByte - 1)
                      THEN (c[k] + 1) % NByte ELSE c[k]]

(* A byte is incremented when every byte behind it wraps.  increment_fast  *)
(* does the same on the bytes taken four at a time.                        *)
increment_counter(c, n) ==
  [k \in DOMAIN c |-> IF k < n /\ \A j \in k + 1 .. n - 1 : c[j] = NByte - 1
                      THEN (c[k] + 1) % NByte ELSE c[k]]

(* The increment_counter of GCM stops the carry at its last four bytes; its *)
(* increment_fast does not.                                                 *)
gcm_increment(c, n) ==
  [k \in DOMAIN c |-> IF k < n - CtrBytes THEN c[k] ELSE increment_counter(c, n)[k]]

(* The counter blocks from r on: r itself, and n more. *)
Counters(r, n) ==
  LET ctr[j \in 0 .. n] == IF j = 0 THEN r ELSE increment_counter(ctr[j - 1], cf.blksize) IN ctr

(* A new unit: buf becomes the keystream block, and reg moves on.  CFB      *)
(* shifts its register by the feedback (the new ciphertext is not known     *)
(* yet), OFB encrypts its buffer once more, CTR counts, GCM counts first.   *)
CfbUnit ==
  [key |-> Over(buf, Enc(At(reg, 0)), cf.blksize),
   reg |-> [k \in Cells |-> IF k < leftover THEN reg[k + unit] ELSE reg[k]]]
OfbUnit ==
  [key |-> Over(buf, Enc(At(buf, 0)), cf.blksize), reg |-> reg]
CtrUnit ==
  [key |-> Over(buf, Enc(At(reg, 0)), cf.blksize), reg |-> increment_counter(reg, cf.blksize)]
GcmUnit ==
  LET y == gcm_increment(reg, cf.blksize) IN
  [key |-> Over(buf, Enc(At(y, 0)), cf.blksize), reg |-> y]
StreamUnit == [key |-> Over(buf, FillBuffer(cf.mode, unit, ks).buf, unit), reg |-> reg]
NextUnit ==
  CASE IsStream -> StreamUnit
    [] cf.mode = "cfb" -> CfbUnit [] cf.mode = "ofb" -> OfbUnit
    [] cf.mode = "ctr" -> CtrUnit [] cf.mode = "gcm" -> GcmUnit

(* The generator is one buffer on.  RC4's is not where it should be then.   *)
Filled ==
  /\ ks' = IF IsStream THEN FillBuffer(cf.mode, unit, ks).ks ELSE ks
  /\ clean' = IF cf.mode = "rc4" THEN 0 ELSE clean

(* GCM hashes the ciphertext, block by block.  A block that comes in more   *)
(* than one piece is put together in cbuf.                                  *)
Absorb(m, o, cipher) ==
  LET c == [k \in Block0 |-> IF o <= k /\ k < o + m THEN cipher[pos + k - o]
                             ELSE auth.cbuf[k]] IN
  [auth EXCEPT !.cbuf = IF m = unit THEN @ ELSE c,
               !.x = IF o + m = unit THEN hash(@, c) ELSE @]

(* m bytes are combined with the keystream b from its offset o on; CFB     *)
(* keeps the ciphertext in its register r and, to encrypt, in buf as well. *)
Consume(m, b, o, r) ==
  LET new == [i \in Idx |-> IF pos <= i /\ i < pos + m THEN XorByte(b[o + i - pos], in[i])
                            ELSE out[i]]
      cipher == IF dir = "enc" THEN new ELSE in IN
  /\ out' = new
  /\ pos' = pos + m
  /\ auth' = IF cf.mode = "gcm" THEN Absorb(m, o, cipher) ELSE auth
  /\ reg' = IF cf.mode # "cfb" THEN r
            ELSE [k \in Cells |->
                    IF leftover + o <= k /\ k < leftover + o + m
                    THEN cipher[pos + k - leftover - o] ELSE r[k]]
  /\ buf' = IF cf.mode = "cfb" /\ dir = "enc"
            THEN [k \in Cells |-> IF o <= k /\ k < o + m THEN new[pos + k - o] ELSE b[k]]
            ELSE b

(* Mutant of Head: the position is not set back at the end of the block. *)
Head_NoWrap ==
  /\ pc = "head" /\ boff > 0
  /\ LET b == Lesser(unit - boff, end - pos) IN
       /\ Consume(b, buf, boff, reg)
       /\ boff' = boff + b
  /\ pc' = "body"
  /\ UNCHANGED <<msgVars, streamVars, tag, callVars, slow, clean>>

(* What is left of the block.  cfb_decrypt moves the position backwards. *)
Head ==
  /\ pc = "head" /\ boff > 0
  /\ LET b == Lesser(unit - boff, end - pos) IN
       /\ Consume(b, buf, boff, reg)
       /\ boff' = IF cf.mode = "cfb" /\ dir = "dec" THEN boff - b
                  ELSE IF boff + b = unit THEN 0 ELSE boff + b
  /\ pc' = "body"
  /\ UNCHANGED <<msgVars, streamVars, tag, callVars, slow, clean>>

(* What is left of the buffer of a stream cipher.  RC4's is full after a    *)
(* reset, and a call of no bytes then loses it.                             *)
StreamHead ==
  /\ pc = "head" /\ left \in 1 .. unit
  /\ LET o == (unit - left) % unit
         b == Lesser(left, end - pos) IN
       /\ Consume(b, buf, o, reg)
       /\ left' = (unit - ((o + b) % unit)) % unit
       /\ clean' = IF left = unit /\ b = 0 THEN 0 ELSE clean
  /\ pc' = "body"
  /\ UNCHANGED <<msgVars, boff, ks, tag, callVars, slow>>

(* A position that went below zero is a very large size_t: the bytes of the *)
(* block are read and written outside of the arrays.  So they are by a      *)
(* clone that found a large number in its memory.                           *)
HeadOutside ==
  /\ pc = "head" /\ (boff < 0 \/ left > unit)
  /\ pc' = "undefined"
  /\ UNCHANGED <<msgVars, ctxVars, auth, streamVars, tag, out, pos, callVars, slow, clean>>

(* A whole unit. *)
Block ==
  /\ pc = "body" /\ end - pos >= unit
  /\ Consume(unit, NextUnit.key, 0, NextUnit.reg)
  /\ Filled
  /\ UNCHANGED <<msgVars, boff, left, tag, callVars, pc, slow>>

(* The rest. *)
Tail ==
  /\ pc = "body" /\ end - pos < unit /\ end # pos
  /\ Consume(end - pos, NextUnit.key, 0, NextUnit.reg)
  /\ Filled
  /\ IF IsStream THEN left' = unit - (end - pos) /\ UNCHANGED boff
                 ELSE boff' = end - pos /\ UNCHANGED left
  /\ Done
  /\ UNCHANGED <<msgVars, tag, slow>>

(* One block of cbc_encrypt, cbc_decrypt and their fast variants. *)
CbcBlock ==
  /\ pc = "cbc" /\ pos # end
  /\ LET x == At(in, pos)
         y == IF dir = "enc" THEN Enc([k \in Block0 |-> XorByte(reg[k], x[k])])
              ELSE [k \in Block0 |-> XorByte(Dec(x)[k], reg[k])] IN
       /\ out' = [i \in Idx |-> IF pos <= i /\ i < pos + cf.blksize
                                THEN y[i - pos] ELSE out[i]]
       /\ reg' = Over(reg, IF dir = "enc" THEN y ELSE x, cf.blksize)
  /\ pos' = pos + cf.blksize
  /\ UNCHANGED <<msgVars, buf, boff, auth, streamVars, tag, callVars, pc, slow, clean>>

(* The call ends without starting another block.  Then cfb_decrypt keeps    *)
(* the position that Head left, and a wrong one makes the next call wrong.  *)
Return ==
  /\ pc \in {"body", "cbc", "fast"} /\ pos = end
  /\ Done
  /\ clean' = IF cf.mode = "cfb" /\ dir = "dec" /\ boff # pos % unit THEN 0 ELSE clean
  /\ UNCHANGED <<msgVars, ctxVars, auth, streamVars, tag, out, pos, slow>>

(* Mutant of LastBlock: what an earlier block left in cbuf is hashed too. *)
LastBlock_NotCleared == [k \in Block0 |-> auth.cbuf[k]]

(* What is left of cbuf is cleared: the loops of gcm_encryptfinal and     *)
(* gcm_decryptfinal.                                                        *)
LastBlock == [k \in Block0 |-> IF k < boff THEN auth.cbuf[k] ELSE 0]

(* The end of gcm_encryptfinal, which writes the tag behind the output, and *)
(* of gcm_decryptfinal, which compares it with the one it was given.  What  *)
(* is left of the context is good for setiv and reset only.                 *)
GcmFinal ==
  /\ pc = "final"
  /\ LET x == IF boff # 0 THEN hash(auth.x, LastBlock) ELSE auth.x
         y == hash(x, LenBlock(auth.alen, auth.clen)) IN
       /\ buf' = Over(buf, Enc(auth.y0), cf.blksize)
       /\ auth' = [auth EXCEPT !.cbuf = IF boff # 0 THEN LastBlock ELSE @,
                               !.x = XorBlock(y, At(buf', 0))]
       /\ tag' = [k \in 0 .. cf.taglen - 1 |-> auth'.x[k]]
  /\ pc' = "done"
  /\ UNCHANGED <<msgVars, reg, boff, streamVars, out, pos, callVars, slow, clean>>

----------------------------------------------------------------------------
(* The fast functions. *)

(* Whether setblock installs the table with the fast functions, or a stream *)
(* cipher has any.                                                          *)
HasFast ==
  CASE IsStream -> cf.mode \notin {"hc", "rabbit"}
    [] cf.mode \in {"cfb", "ofb"} -> unit = cf.blksize /\ cf.blksize * 2 \in {Align, 2 * Align}
    [] OTHER -> cf.blksize = Align

(* Whether GCM's counter wraps within the next n bytes. *)
Wraps(n) ==
  LET m == n \div cf.blksize IN
  \E j \in 0 .. m - 1 : \A k \in ShortIv .. cf.blksize - 1 : Counters(reg, m)[j][k] = NByte - 1

(* encryptfast or decryptfast: whole blocks, whole alignment units, and no  *)
(* plain call before it.                                                    *)
FastCall(n) ==
  /\ pc = "idle" /\ slow = 0 /\ Fits(n)
  /\ n % Align = 0 /\ n % cf.blksize = 0
  /\ end' = pos + n /\ src' = pos /\ fin' = 0
  /\ auth' = Counted(n)
  /\ pc' = IF cf.mode = "cbc" THEN "cbc" ELSE IF HasFast THEN "fast"
           ELSE IF boff # 0 \/ left # 0 THEN "head" ELSE "body"
  /\ clean' = IF \/ HasFast /\ cf.mode \in {"cfb", "ofb"} /\ cf.blksize < Align
                 \/ HasFast /\ cf.mode \in {"ctr", "gcm"} /\ n > FastBuf
                 \/ cf.mode = "gcm" /\ Wraps(n)
              THEN 0 ELSE clean
  /\ UNCHANGED <<msgVars, ctxVars, streamVars, tag, out, pos, slow>>

(* encryptfast of Align / blksize blocks of f at once, into buf. *)
EncChunks(f) ==
  [k \in Cells |-> IF k < Align
                   THEN Enc(At(f, k - (k % cf.blksize)))[k % cf.blksize] ELSE buf[k]]

(* out after Align more bytes were combined with the keystream b. *)
OutChunk(b) ==
  [i \in Idx |-> IF pos <= i /\ i < pos + Align THEN XorByte(b[i - pos], in[i]) ELSE out[i]]

(* The turns of the functions with a buffer of FastBuf bytes combine x      *)
(* bytes of it, but their exclusive or goes on to the end of the whole      *)
(* call, past the end of the buffer: what that writes, g, may be anything,  *)
(* and later turns write it again.                                          *)
Beyond(x) == [pos + x .. end - 1 -> Byte]
Spilled(g) == [i \in Idx |-> IF i \in DOMAIN g THEN g[i] ELSE out[i]]

(* One turn of cfb_encryptfast, whose `cur' is the chunk before. *)
CfbEncryptFast ==
  /\ pc = "fast" /\ pos # end /\ cf.mode = "cfb" /\ dir = "enc"
  /\ buf' = EncChunks(reg)
  /\ out' = OutChunk(buf')
  /\ reg' = [k \in Cells |-> IF k < Align THEN out'[pos + k] ELSE reg[k]]
  /\ pos' = pos + Align
  /\ UNCHANGED <<msgVars, boff, auth, streamVars, tag, callVars, pc, slow, clean>>

(* One turn of ofb_encryptfast. *)
OfbEncryptFast ==
  /\ pc = "fast" /\ pos # end /\ cf.mode = "ofb"
  /\ buf' = EncChunks(buf)
  /\ out' = OutChunk(buf')
  /\ pos' = pos + Align
  /\ UNCHANGED <<msgVars, reg, boff, auth, streamVars, tag, callVars, pc, slow, clean>>

(* One turn of cfb_decryptfast: a buffer of the previous ciphertext blocks  *)
(* is encrypted.                                                            *)
CfbDecryptFast ==
  /\ pc = "fast" /\ pos # end /\ cf.mode = "cfb" /\ dir = "dec"
  /\ LET x == Lesser(FastBuf, end - pos)
         From(i) == IF i < cf.blksize THEN At(reg, 0)
                    ELSE At(in, pos + i - (i % cf.blksize) - cf.blksize) IN
       /\ \E g \in Beyond(x) :
            out' = [i \in Idx |-> IF pos <= i /\ i < pos + x
                                 THEN XorByte(Enc(From(i - pos))[(i - pos) % cf.blksize], in[i])
                                 ELSE Spilled(g)[i]]
       /\ reg' = Over(reg, At(in, pos + x - cf.blksize), cf.blksize)
       /\ pos' = pos + x
  /\ UNCHANGED <<msgVars, buf, boff, auth, streamVars, tag, callVars, pc, slow, clean>>

(* One turn of ctr_encryptfast.  The loop that fills the buffer advances in *)
(* by its length, and so does the end of the turn: the next turn reads from *)
(* too far on, in the end from behind the message.                          *)
CtrEncryptFast ==
  /\ pc = "fast" /\ pos # end /\ cf.mode = "ctr"
  /\ LET x == Lesser(FastBuf, end - pos)
         ctr == Counters(reg, x \div Align) IN
       \E b \in Byte, g \in Beyond(x) :
         LET From(i) == IF src + i < end THEN in[src + i] ELSE b IN
         /\ out' = [i \in Idx |-> IF pos <= i /\ i < pos + x
                                  THEN XorByte(
                                         Enc(At(ctr[(i - pos) \div Align], 0))[(i - pos) % Align],
                                         From(i - pos))
                                  ELSE Spilled(g)[i]]
         /\ reg' = ctr[x \div Align]
         /\ pos' = pos + x
         /\ src' = src + x + FastBuf
  /\ UNCHANGED <<msgVars, buf, boff, auth, streamVars, tag, end, fin, pc, slow, clean>>

(* One turn of CopyAndXorAligned. *)
StreamFast ==
  /\ pc = "fast" /\ pos # end /\ IsStream
  /\ Consume(unit, NextUnit.key, 0, NextUnit.reg)
  /\ Filled
  /\ UNCHANGED <<msgVars, boff, left, tag, callVars, pc, slow>>

(* One turn of gcm_encryptfast or gcm_decryptfast, with the same mistake.   *)
GcmFast ==
  /\ pc = "fast" /\ pos # end /\ cf.mode = "gcm"
  /\ LET x == Lesser(FastBuf, end - pos)
         ctr == Counters(reg, x \div Align) IN
       \E b \in Byte, g \in Beyond(x) :
         LET From(i) == IF src + i < end THEN in[src + i] ELSE b
             To(i) == XorByte(Enc(At(ctr[(i \div Align) + 1], 0))[i % Align], From(i))
             Hashed == [j \in 0 .. (x \div Align) - 1 |->
                          [k \in Block0 |-> IF dir = "enc" THEN To(j * Align + k)
                                            ELSE From(j * Align + k)]] IN
         /\ out' = [i \in Idx |-> IF pos <= i /\ i < pos + x THEN To(i - pos)
                                  ELSE Spilled(g)[i]]
         /\ auth' = [auth EXCEPT !.x = hash_blocks(@, x \div Align, Hashed)]
         /\ reg' = ctr[x \div Align]
         /\ pos' = pos + x
         /\ src' = src + x + FastBuf
  /\ UNCHANGED <<msgVars, buf, boff, streamVars, tag, end, fin, pc, slow, clean>>

----------------------------------------------------------------------------
Step ==
  \/ Head \/ HeadOutside \/ Block \/ Tail \/ CbcBlock \/ Return
  \/ CfbEncryptFast \/ OfbEncryptFast \/ CfbDecryptFast \/ CtrEncryptFast
  \/ GcmFast \/ GcmFinal \/ StreamHead \/ StreamFast

Next ==
  \/ \E v \in NewIVs, n \in IvLens(cf) : SetIv(v, n)
  \/ Reset \/ Clone
  \/ \E n \in 0 .. MaxAad : SetData(n)
  \/ \E n \in 0 .. MaxCall : Refuse(n) \/ \E f \in {0, 1} : Call(n, f)
  \/ \E n \in 0 .. MaxFast : FastCall(n)
  \/ Step

Spec == Init /\ [][Next]_vars

----------------------------------------------------------------------------
(* Every variable keeps its type. *)
AuthType ==
  [y0 : [Block0 -> Byte], x : [Block0 -> Byte], cbuf : [Block0 -> Byte],
   alen : 0 .. MaxAad, clen : 0 .. MaxLen]
KsType ==
  CASE cf.mode = "salsa20" -> [nonce : [Cells -> Byte], ctr : 0 .. NCtr - 1]
    [] cf.mode = "rc4" ->
         [s : [0 .. unit - 1 -> 0 .. unit - 1], i : 0 .. unit - 1, j : 0 .. unit - 1]
    [] IsStream /\ cf.mode \notin {"salsa20", "rc4"} -> GenStates
    [] OTHER -> {<<>>}
TypeOK ==
  /\ cf \in Configs /\ dir \in Dirs
  /\ iv \in [Cells -> Byte] /\ reg \in [Cells -> Byte] /\ buf \in [Cells -> Byte]
  /\ ivlen \in IvLens(cf)
  /\ in \in [Idx -> Byte] /\ out \in [Idx -> Byte]
  /\ IF cf.mode = "gcm" THEN auth \in AuthType ELSE auth = <<>>
  /\ ks \in KsType /\ left \in 0 .. cf.blksize + 1
  /\ tag \in {NoTag} \cup [0 .. cf.taglen - 1 -> Byte]
  /\ boff \in -cf.blksize .. unit - 1 /\ pos \in 0 .. MaxLen
  /\ src \in Nat /\ end \in 0 .. MaxLen /\ fin \in {0, 1}
  /\ pc \in {"idle", "head", "body", "cbc", "fast", "final", "done", "undefined"}
  /\ slow \in {0, 1} /\ clean \in {0, 1}

(* The standard definition of each mode, without buffers and positions.     *)
(* Byte i of the message lies in the unit that starts at byte s.            *)
Cipher(i) == IF dir = "enc" THEN out[i] ELSE in[i]
Plain(i) == IF dir = "enc" THEN in[i] ELSE out[i]

(* CFB: the last blksize bytes of the iv and the ciphertext before s. *)
CfbInput(s) ==
  [k \in Block0 |-> IF s + k < cf.blksize THEN iv[s + k] ELSE Cipher(s + k - cf.blksize)]

(* OFB: the keystream block before s, which is plaintext and ciphertext     *)
(* together.                                                                *)
OfbInput(s) ==
  [k \in Block0 |-> IF s = 0 THEN iv[k]
                    ELSE XorByte(Plain(s - cf.blksize + k), Cipher(s - cf.blksize + k))]

(* The number in the last w bytes of a block, most significant byte first,  *)
(* and what is left of a number v when its last bytes are taken away.       *)
Number(b, w) ==
  LET first[k \in 0 .. w] ==
        IF k = 0 THEN 0 ELSE NByte * first[k - 1] + b[cf.blksize - w + k - 1] IN
  first[w]
Quotients(v, w) == LET rest[k \in 0 .. w] == IF k = 0 THEN v ELSE rest[k - 1] \div NByte IN rest

(* The block whose number is that of b plus d. *)
CounterAt(b, w, d) ==
  LET rest == Quotients(Number(b, w) + d, w) IN
  [k \in Block0 |-> IF k < cf.blksize - w THEN b[k] ELSE rest[cf.blksize - 1 - k] % NByte]

(* GHASH of the blocks f[1] .. f[m]: a polynomial in H. *)
GHash(m, f) ==
  LET power[i \in 0 .. m] == IF i = 0 THEN H ELSE Product(H, power[i - 1])
      sum[i \in 0 .. m] == IF i = 0 THEN ZeroBlock
                           ELSE XorBlock(sum[i - 1], Product(power[m - i], f[i])) IN
  sum[m]
BlocksOf(n) == (n + cf.blksize - 1) \div cf.blksize

(* The first counter of GCM. *)
J0 ==
  IF ivlen = ShortIv THEN [Padded(iv, ivlen, 0) EXCEPT ![cf.blksize - 1] = 1]
  ELSE GHash(BlocksOf(ivlen) + 1,
             [i \in 1 .. BlocksOf(ivlen) + 1 |->
                IF i > BlocksOf(ivlen) THEN LenBlock(0, ivlen)
                ELSE Padded(iv, ivlen, (i - 1) * cf.blksize)])

(* What the cipher is given for the unit at s. *)
Input(s) ==
  CASE cf.mode = "cfb" -> CfbInput(s)
    [] cf.mode = "ofb" -> OfbInput(s)
    [] cf.mode = "ctr" -> CounterAt(iv, cf.blksize, s \div cf.blksize)
    [] cf.mode = "gcm" -> CounterAt(J0, CtrBytes, s \div cf.blksize + 1)
    [] cf.mode = "cbc" ->
         [k \in Block0 |->
            XorByte(Plain(s + k), IF s = 0 THEN iv[k] ELSE Cipher(s - cf.blksize + k))]

Defined(i) ==
  LET s == i - (i % unit) IN
  IF IsStream
  THEN XorByte(Plain(i), Keystream(cf.mode, unit, cf.drop, iv, i)) = Cipher(i)
  ELSE IF cf.mode = "cbc" THEN Cipher(i) = Enc(Input(s))[i - s]
  ELSE XorByte(Plain(i), Enc(Input(s))[i - s]) = Cipher(i)

(* However a message is cut into calls, plain or fast, the result is the    *)
(* one the definition of the mode gives (all encrypt and decrypt functions  *)
(* of cfb.c, ofb.c, ctr.cc, cbc.c, gcm-impl.cc and impl/stream), as long as *)
(* nothing is done that the code gets wrong: see clean.                     *)
StreamCorrect == clean = 1 /\ pc \in {"idle", "done"} => \A i \in Idx : i < pos => Defined(i)

(* Between calls boff is the position within the unit, and what buf holds   *)
(* from there on is the keystream of the bytes to come.  A stream cipher    *)
(* counts the bytes that are left of the unit instead.                      *)
Resumable ==
  clean = 1 /\ pc = "idle" /\ cf.mode # "cbc" =>
    /\ IsStream =>
         /\ cf.mode # "rc4" => left = (unit - (pos % unit)) % unit
         /\ \A k \in 0 .. left - 1 :
              buf[unit - left + k] = Keystream(cf.mode, unit, cf.drop, iv, pos + k)
    /\ ~IsStream => boff = pos % unit
    /\ \A k \in Cells : boff # 0 /\ boff <= k /\ k < unit => buf[k] = Enc(Input(pos - boff))[k]

(* The tag of the final call is GHASH of the data and of the ciphertext,    *)
(* each filled up to whole blocks, and of their lengths, under the first    *)
(* counter (gcm_encryptfinal, gcm_decryptfinal), however setdata, the plain *)
(* and the fast calls cut the message up and whichever multiplication the   *)
(* context uses.                                                            *)
TagCorrect ==
  pc = "done" /\ clean = 1 =>
    LET a == BlocksOf(auth.alen)
        c == BlocksOf(pos)
        Text == [i \in Idx |-> Cipher(i)]
        f == [i \in 1 .. a + c + 1 |->
                CASE i <= a -> Padded(AadBytes, auth.alen, (i - 1) * cf.blksize)
                  [] a < i /\ i <= a + c -> Padded(Text, pos, (i - a - 1) * cf.blksize)
                  [] i = a + c + 1 -> LenBlock(auth.alen, pos)]
        t == XorBlock(GHash(a + c + 1, f), Enc(J0)) IN
    tag = [k \in 0 .. cf.taglen - 1 |-> t[k]]

(* cfb_test_generic: decryption in pieces gives the plaintext back. *)
CfbDecryptCorrect ==
  cf.mode = "cfb" /\ dir = "dec" /\ pc = "idle" => \A i \in Idx : i < pos => Defined(i)

(* doc/API: the fast routines do what the plain ones do. *)
FastCorrect == slow = 0 /\ pc = "idle" => \A i \in Idx : i < pos => Defined(i)
=============================================================================
