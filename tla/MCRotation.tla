----------------------------- MODULE MCRotation -----------------------------
(* A small instance of Rotation; processes and tenants are interchangeable.   *)
EXTENDS Rotation, TLC

Symmetry == Permutations(Procs) \cup Permutations(Tenants)
=============================================================================
