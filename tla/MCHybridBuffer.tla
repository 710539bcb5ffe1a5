--------------------------- MODULE MCHybridBuffer ---------------------------
(* HybridBuffer for TLC: objects, bytes and blocks are model values.       *)
EXTENDS HybridBuffer, TLC

Symmetry == Permutations(Objects) \cup Permutations(Bytes) \cup Permutations(Blocks)
=============================================================================
