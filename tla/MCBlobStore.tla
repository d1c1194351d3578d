---------------------------- MODULE MCBlobStore ----------------------------
(* Two renderings of one variant, and an upload. *)
EXTENDS BlobStore, TLC

CONSTANTS r1, r2, u1, kv, ku

MCKeyOf == (r1 :> kv) @@ (r2 :> kv) @@ (u1 :> ku)
MCSize == (kv :> 2) @@ (ku :> 3)
Symmetry == Permutations({r1, r2})
=============================================================================
