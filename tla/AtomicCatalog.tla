---------------------------- MODULE AtomicCatalog ----------------------------
(***************************************************************************)
(* What concurrent calls of register_catalog promise together: the latest  *)
(* catalog is in force, whole, and a version is added when it changes.     *)
(***************************************************************************)
EXTENDS Naturals, Sequences

CONSTANTS Catalogs, Hash

VARIABLES inForce, history

vars == <<inForce, history>>

Init == inForce = {} /\ history = <<>>

Register(catalog) ==
  /\ history = <<>> \/ history[Len(history)] # Hash[catalog]
  /\ inForce' = catalog
  /\ history' = Append(history, Hash[catalog])

Next == \E catalog \in Catalogs : Register(catalog)

Spec == Init /\ [][Next]_vars
=============================================================================
