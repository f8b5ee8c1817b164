------------------------------- MODULE MCBlock -------------------------------
(* The block ciphers with keys and blocks of the real sizes. *)
EXTENDS Block, TLC

Symmetry == Permutations(Slots)

\* Stands for the tables: any function of the index will do, because no cipher
\* here needs one of these tables to be a permutation.
Scattered(w, n) == {i \in 0 .. w-1 : ((n + 11*i) * (i + 3)) % 31 < 15}
MCTable(w, t, x) == Scattered(w, 37 * Num(x) + t)

Pattern(n, k) == [i \in 1 .. n |-> OfNum(8, (k * (i + 1) * (i + 6) + i) % 256)]
MCText(n) == Pattern(n, 29)

Alone == {"DES", "DESede", "Blowfish", "TEA", "XTEA", "RC2", "SEED", "CAST-128", "CAST-256",
          "Camellia", "SHACAL-1", "SHACAL-2", "Serpent", "Twofish", "MARS", "SAFER-K", "SAFER-SK",
          "Rijndael160", "Rijndael192", "Rijndael224", "Rijndael256", "AESNI"}
MCFamilies == {{a} : a \in Alone} \union {{"AES", "AESNI", "Rijndael128"}, {"ARIA128", "ARIAbyte"}}

\* The sizes of the keys: two where the cipher has more than one, and one that
\* Camellia and AESNI refuse.  SAFER has two, but a context that gets keys of both
\* goes wrong: SAFER-K gets the short one here and SAFER-SK the long one.
Sizes(f) ==
    CASE f \subseteq {"DES", "SAFER-K"} -> {8}
      [] f \subseteq {"TEA", "XTEA", "SEED", "SAFER-SK"} -> {16}
      [] f \subseteq {"Blowfish"} -> {7, 16}
      [] f \subseteq {"DESede"} -> {16, 24}
      [] f \subseteq {"CAST-128"} -> {9, 16}
      [] f \subseteq {"RC2"} -> {8, 17}
      [] f \subseteq {"Serpent", "SHACAL-1", "SHACAL-2"} -> {15, 32}
      [] f \subseteq {"MARS", "Twofish", "CAST-256"} -> {16, 32}
      [] f \subseteq {"Camellia"} -> {16, 20, 24}
      [] f \subseteq {"ARIA128", "ARIAbyte"} -> {16, 24}
      [] "AES" \in f -> {16, 24}
      [] "AESNI" \in f -> {20, 24, 32}
      [] OTHER -> {20, 32}
\* At least two keys.
MCKeys(f) ==
    {Pattern(n, k) : n \in Sizes(f), k \in IF Cardinality(Sizes(f)) = 1 THEN {5, 9} ELSE {5}}
\* Only one implementation of AES looks at the direction.
MCFlags(f) == IF f = {"AESNI"} THEN {"both", "encrypt"} ELSE {"both"}
\* Three keys where the new schedule depends on what the context held before,
\* two where there are plugins to compare, and one where SetKeyInternal writes all
\* of the context.
MCMaxKeys(f) ==
    CASE f \subseteq {"Camellia", "AESNI", "SAFER-K", "SAFER-SK"} -> 3
      [] Cardinality(f) > 1 -> 2
      [] OTHER -> 1
==============================================================================
