----------------------------- MODULE MCDigests -----------------------------
(* The hash functions with blocks and digests of the real sizes. *)
EXTENDS Digests, TLC

Symmetry == Permutations(Slots)

\* Stands for the tables: any function of the index will do.
Pattern == SubSeq([n \in 1 .. 256 |-> {i \in 0 .. 63 : ((37*n + 11*i) * (i + 3)) % 31 < 15}], 1, 256)
MCTable(w, t, x) == Pattern[((Num(x) + 37*t) % 256) + 1] \cap (0 .. w-1)

MCFamilies ==
    {{a} : a \in {"MD2", "MD4", "MD5", "RIPEMD128", "RIPEMD160", "RIPEMD256", "RIPEMD320", "SHA0",
                  "SHA1", "SHA224", "SHA256", "SHA384", "SHA512", "SHA512t", "Tiger", "Whirlpool",
                  "JH", "Fugue224", "Fugue256", "Fugue384", "Fugue512", "Groestl28", "Groestl48",
                  "BLAKE224", "BLAKE256", "BLAKE384", "BLAKE512", "BLAKE2b", "Skein",
                  "SHA3224", "SHA3256", "SHA3384", "SHA3512"}}
    \union {{"Keccak", "KeccakWithLimitedNots", "KeccakCompact"}}

BlockOf(f) ==
    CASE f \subseteq DOMAIN FugueSize -> 4
      [] f \subseteq {"MD2"} -> 16
      [] f \subseteq {"SHA384", "SHA512", "SHA512t", "BLAKE384", "BLAKE512", "BLAKE2b", "Groestl48"} -> 128
      [] f \subseteq {"Keccak", "KeccakWithLimitedNots", "KeccakCompact", "SHA3224"} -> 144
      [] f \subseteq {"SHA3256"} -> 136
      [] f \subseteq {"SHA3384"} -> 104
      [] f \subseteq {"SHA3512"} -> 72
      [] OTHER -> 64
\* A block and its parts, so that two ways to cut a text meet: messages of whole
\* blocks, and one byte more or less.  BLAKE2b only has messages that are not whole
\* blocks, and Skein no fast updates: whole blocks come out wrong in the former
\* (blake.hh:112), fast updates in the latter (hash.hh:83).
MCPieces(f) == IF f = {"BLAKE2b"} THEN {3, 126} ELSE {1, BlockOf(f) - 1}
MCFastPieces(f) == IF f \in {{"BLAKE2b"}, {"Skein"}} THEN {} ELSE {BlockOf(f)}

\* Clones and resets for one class that keeps each kind of context.
MCMaxContexts(f) == IF f \in {{"MD2"}, {"BLAKE256"}, {"Skein"}, {"Groestl28"}, {"Fugue256"}} THEN 2 ELSE 1
==============================================================================
