----------------------------- MODULE MCLoader -----------------------------
(* The loader on a small instance. *)
EXTENDS Loader, TLC

(* Threads, references and addresses are interchangeable. *)
Symmetry == Permutations(Threads) \cup Permutations(Refs) \cup Permutations(Addrs)

(* Negative numbers cannot be written in a configuration. *)
MCMetaItems == {-2, -1, 0, 1}

MCCountItems == {-1, 0}
=============================================================================
