---------------------------- MODULE AtomicLedger ----------------------------
(***************************************************************************)
(* What the transactions of Ledger promise together: every upload, delete  *)
(* and restore happens at once, on a row in the right state, and moves the *)
(* row, its grant and both usage counters by exactly its own share.        *)
(***************************************************************************)
EXTENDS Naturals

CONSTANTS Files, Nonces, Nonce, Size

VARIABLES row, grant, used, count

vars == <<row, grant, used, count>>

Unused(n) == grant[n] \in {"open", "expired"}

Move(f, from, to) == row[f] = from /\ row' = [row EXCEPT ![f] = to]

Init ==
  /\ row = [f \in Files |-> "none"]
  /\ grant = [n \in Nonces |-> "none"]
  /\ used = 0 /\ count = 0

Upload(f) ==
  /\ Unused(Nonce[f])
  /\ grant' = [grant EXCEPT ![Nonce[f]] = "consumed"]
  /\ Move(f, "none", "live")
  /\ used' = used + Size[f] /\ count' = count + 1

Delete(f) ==
  /\ Move(f, "live", "trash")
  /\ used >= Size[f] /\ used' = used - Size[f]
  /\ count > 0 /\ count' = count - 1
  /\ UNCHANGED grant

Restore(f) ==
  /\ Move(f, "trash", "live")
  /\ used' = used + Size[f] /\ count' = count + 1
  /\ UNCHANGED grant

Purge(f) == Move(f, "trash", "purged") /\ UNCHANGED <<grant, used, count>>

Mint(n) ==
  /\ grant[n] = "none"
  /\ grant' = [grant EXCEPT ![n] = "open"]
  /\ UNCHANGED <<row, used, count>>

Expire(n) ==
  /\ grant[n] = "open"
  /\ grant' = [grant EXCEPT ![n] = "expired"]
  /\ UNCHANGED <<row, used, count>>

Prune(n) ==
  /\ grant[n] \in {"consumed", "expired"}
  /\ grant' = [grant EXCEPT ![n] = "pruned"]
  /\ UNCHANGED <<row, used, count>>

Next ==
  \/ \E f \in Files : Upload(f) \/ Delete(f) \/ Restore(f) \/ Purge(f)
  \/ \E n \in Nonces : Mint(n) \/ Expire(n) \/ Prune(n)

Spec == Init /\ [][Next]_vars
=============================================================================
