----------------------------- MODULE MCVariants -----------------------------
(* A small instance of Variants: all files have the same bytes.               *)
EXTENDS Variants, TLC

CONSTANT k1

SameKey == [f \in Files |-> k1]
Symmetry == Permutations(Requests) \cup Permutations(Files) \cup Permutations(Specs)
=============================================================================
