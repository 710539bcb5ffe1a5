--------------------------- MODULE MCBoundedMPMC ---------------------------
(* BoundedMPMC for TLC: threads and None are model values.                 *)
EXTENDS BoundedMPMC, TLC

ThreadSymmetry == Permutations(Producers) \cup Permutations(Consumers)
=============================================================================
