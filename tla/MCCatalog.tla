----------------------------- MODULE MCCatalog -----------------------------
(* A small instance of Catalog: two keys, one with two definitions, and       *)
(* catalogs that share a key, a policy, or neither.                           *)
EXTENDS Catalog, TLC

CONSTANTS avatar, avatar2, doc

KeyOfPolicy == [p \in {avatar, avatar2, doc} |-> IF p = doc THEN 2 ELSE 1]
SomeCatalogs == {{avatar}, {doc}, {avatar, doc}, {avatar2, doc}}
(* The two catalogs that differ in the definition of avatar have one hash, as   *)
(* ["a,b"] and ["a","b"] give.                                                  *)
SomeHash == [cat \in SomeCatalogs |->
  IF doc \notin cat THEN "avatar" ELSE IF cat = {doc} THEN "doc" ELSE "both"]
Symmetry == Permutations(Calls)
=============================================================================
