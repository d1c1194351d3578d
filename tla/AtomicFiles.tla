----------------------------- MODULE AtomicFiles -----------------------------
(***************************************************************************)
(* What uploads, deletes, restores, the collector and reconcile promise    *)
(* together: a file that was promised to its client can be read as long as *)
(* it is live, and brought back until it expires, or a file that shares    *)
(* its bytes does; it leaves the table expired, and never on its own.      *)
(***************************************************************************)
CONSTANTS Files

VARIABLES
  row,       \* how far each file is in its life
  promised,  \* files whose clients may rely on them
  readable   \* files in the table whose bytes are in the store

vars == <<row, promised, readable>>

Init ==
  /\ row = [f \in Files |-> "none"]
  /\ promised = {}
  /\ readable = {}

Store(f) ==
  /\ row[f] = "none"
  /\ row' = [row EXCEPT ![f] = "live"]
  /\ promised' \in {promised, promised \cup {f}}
  /\ readable' \in {readable, readable \cup {f}}
  /\ f \in promised' => f \in readable'

Delete(f) ==
  /\ row[f] = "live"
  /\ \E tombstone \in {"trash", "expired"} : row' = [row EXCEPT ![f] = tombstone]
  /\ UNCHANGED <<promised, readable>>

Expire(f) ==
  /\ row[f] = "trash"
  /\ row' = [row EXCEPT ![f] = "expired"]
  /\ UNCHANGED <<promised, readable>>

Restore(f) ==
  /\ row[f] \in {"trash", "expired"}
  /\ f \in promised => f \in readable
  /\ row' = [row EXCEPT ![f] = "live"]
  /\ UNCHANGED <<promised, readable>>

(* The files of one blob lose it, for one of them has expired. *)
Reclaim(shared) ==
  /\ \E f \in shared : row[f] = "expired"
  /\ \A f \in shared \cap promised : row[f] # "live"
  /\ readable' = readable \ shared
  /\ UNCHANGED <<row, promised>>

(* Files that nobody was promised lose their bytes. *)
Lose(files) ==
  /\ files \cap promised = {}
  /\ readable' = readable \ files
  /\ UNCHANGED <<row, promised>>

Purge(files) ==
  /\ \A f \in files : row[f] = "expired"
  /\ row' = [f \in Files |-> IF f \in files THEN "purged" ELSE row[f]]
  /\ readable' = readable \ files
  /\ UNCHANGED promised

Next ==
  \/ \E f \in Files : Store(f) \/ Delete(f) \/ Expire(f) \/ Restore(f)
  \/ \E files \in SUBSET Files : Reclaim(files) \/ Lose(files) \/ Purge(files)

Spec == Init /\ [][Next]_vars
=============================================================================
