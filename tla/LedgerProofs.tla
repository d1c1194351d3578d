--------------------------- MODULE LedgerProofs ---------------------------
(***************************************************************************)
(* Proofs about Ledger, for any number of connections, uploads, grants and *)
(* quota values: type correctness, single use of a grant, the exactness of *)
(* the counters, the reservation of quota, and that the transactions       *)
(* implement the atomic operations of AtomicLedger.                        *)
(***************************************************************************)
EXTENDS Ledger, FiniteSetTheorems, TLAPS

-----------------------------------------------------------------------------
(* Each phase belongs to some operation and names a file.                    *)
PhaseInv ==
  \A t \in Txs :
    /\ at[t] # "idle" => op[t] # "none" /\ on[t] \in Files
    /\ at[t] = "locked" => op[t] = "restore"
    /\ at[t] = "consumed" => op[t] = "upload"
    /\ at[t] = "marked" => op[t] \in {"delete", "restore"}
    /\ at[t] = "checked" => op[t] \in {"upload", "restore"} /\ seen[t] > 0

(* No lock is held twice. *)
Exclusive ==
  \A t, u \in Txs :
    /\ HoldsUsage(t) /\ HoldsUsage(u) => t = u
    /\ \A n \in Nonces : HoldsGrant(t, n) /\ HoldsGrant(u, n) => t = u
    /\ \A f \in Files : HoldsRow(t, f) /\ HoldsRow(u, f) => t = u
    /\ HoldsAdvisory(t) /\ HoldsAdvisory(u) => t = u

(* What a transaction found under its lock stays so while it holds it. *)
FoundInv ==
  \A t \in Txs, f \in Files :
    /\ HoldsGrant(t, Nonce[f]) => grant[Nonce[f]] \in {"open", "expired"}
    /\ op[t] = "delete" /\ HoldsRow(t, f) => row[f] = "live"
    /\ op[t] = "restore" /\ HoldsRow(t, f) => row[f] = "trash"

(* An unused grant has no file. *)
GrantInv ==
  \A f \in Files : grant[Nonce[f]] \in {"none", "open", "expired"} => row[f] = "none"

IInv ==
  /\ TypeOK /\ PhaseInv /\ Exclusive /\ FoundInv /\ GrantInv
  /\ NonceSingleUse /\ QuotaReserved /\ CountersExact

-----------------------------------------------------------------------------
(* Types and phases. *)
LEMMA TypeStep ==
  TypeOK /\ PhaseInv /\ [Next]_vars => (TypeOK /\ PhaseInv)'
<1> SUFFICES ASSUME TypeOK, PhaseInv, [Next]_vars PROVE (TypeOK /\ PhaseInv)'
  OBVIOUS
<1> USE NoFileAssumption, NonceAssumption, SizeAssumption, QuotasAssumption
    DEF TypeOK, Ops, Phases, PhaseInv, db, txVars
<1>1. ASSUME NEW t \in Txs, NEW f \in Files, BeginUpload(t, f) PROVE (TypeOK /\ PhaseInv)'
  BY <1>1 DEF BeginUpload, Begin
<1>2. ASSUME NEW t \in Txs, NEW f \in Files, BeginDelete(t, f) PROVE (TypeOK /\ PhaseInv)'
  BY <1>2 DEF BeginDelete, Begin
<1>3. ASSUME NEW t \in Txs, NEW f \in Files, BeginRestore(t, f) PROVE (TypeOK /\ PhaseInv)'
  BY <1>3 DEF BeginRestore, Begin
<1>4. ASSUME NEW t \in Txs, Consume(t) PROVE (TypeOK /\ PhaseInv)'
  BY <1>4 DEF Consume, Advance, RollBack, End
<1>5. ASSUME NEW t \in Txs, MarkDeleted(t) PROVE (TypeOK /\ PhaseInv)'
  BY <1>5 DEF MarkDeleted, Advance, RollBack, End
<1>6. ASSUME NEW t \in Txs, LockAdvisory(t) PROVE (TypeOK /\ PhaseInv)'
  BY <1>6 DEF LockAdvisory, Advance
<1>7. ASSUME NEW t \in Txs, MarkRestored(t) PROVE (TypeOK /\ PhaseInv)'
  BY <1>7 DEF MarkRestored, Advance, RollBack, End
<1>8. ASSUME NEW t \in Txs, CheckQuota(t) PROVE (TypeOK /\ PhaseInv)'
  BY <1>8 DEF CheckQuota, Advance, RollBack, End, Unchecked
<1>9. ASSUME NEW t \in Txs, Meter(t) PROVE (TypeOK /\ PhaseInv)'
  BY <1>9 DEF Meter, Advance, Unchecked
<1>10. ASSUME NEW t \in Txs, Commit(t) PROVE (TypeOK /\ PhaseInv)'
  BY <1>10 DEF Commit, Credit, Debit, End
<1>11. ASSUME NEW t \in Txs, Abort(t) PROVE (TypeOK /\ PhaseInv)'
  BY <1>11 DEF Abort, RollBack, End
<1>12. ASSUME NEW q \in Quotas, SetQuota(q) PROVE (TypeOK /\ PhaseInv)'
  BY <1>12 DEF SetQuota
<1>13. ASSUME NEW n \in Nonces, ExpireGrant(n) PROVE (TypeOK /\ PhaseInv)'
  BY <1>13 DEF ExpireGrant
<1>14. ASSUME NEW n \in Nonces, PruneGrant(n) PROVE (TypeOK /\ PhaseInv)'
  BY <1>14 DEF PruneGrant
<1>17. ASSUME NEW n \in Nonces, MintGrant(n) PROVE (TypeOK /\ PhaseInv)'
  BY <1>17 DEF MintGrant
<1>15. ASSUME NEW f \in Files, Purge(f) PROVE (TypeOK /\ PhaseInv)'
  BY <1>15 DEF Purge
<1>16. CASE UNCHANGED vars
  BY <1>16 DEF vars
<1> QED
  BY <1>1, <1>2, <1>3, <1>4, <1>5, <1>6, <1>7, <1>8, <1>9, <1>10, <1>11, <1>12, <1>13, <1>14, <1>15, <1>16, <1>17 DEF Next, Step

(* No lock is held twice, whatever order the statements run in. *)
LEMMA ExclusiveStep ==
  TypeOK /\ PhaseInv /\ Exclusive /\ [Next]_vars => Exclusive'
<1> SUFFICES ASSUME TypeOK, PhaseInv, Exclusive, [Next]_vars PROVE Exclusive'
  OBVIOUS
<1> USE NoFileAssumption, NonceAssumption, SizeAssumption, QuotasAssumption
    DEF TypeOK, Ops, Phases, PhaseInv, Exclusive, db, txVars, HoldsUsage, HoldsGrant, HoldsRow, HoldsAdvisory
<1>1. ASSUME NEW t \in Txs, NEW f \in Files, BeginUpload(t, f) PROVE Exclusive'
  BY <1>1 DEF BeginUpload, Begin
<1>2. ASSUME NEW t \in Txs, NEW f \in Files, BeginDelete(t, f) PROVE Exclusive'
  BY <1>2 DEF BeginDelete, Begin
<1>3. ASSUME NEW t \in Txs, NEW f \in Files, BeginRestore(t, f) PROVE Exclusive'
  BY <1>3 DEF BeginRestore, Begin
<1>4. ASSUME NEW t \in Txs, Consume(t) PROVE Exclusive'
  BY <1>4 DEF Consume, Advance, RollBack, End
<1>5. ASSUME NEW t \in Txs, MarkDeleted(t) PROVE Exclusive'
  BY <1>5 DEF MarkDeleted, Advance, RollBack, End
<1>6. ASSUME NEW t \in Txs, LockAdvisory(t) PROVE Exclusive'
  BY <1>6 DEF LockAdvisory, Advance
<1>7. ASSUME NEW t \in Txs, MarkRestored(t) PROVE Exclusive'
  BY <1>7 DEF MarkRestored, Advance, RollBack, End
<1>8. ASSUME NEW t \in Txs, CheckQuota(t) PROVE Exclusive'
  BY <1>8 DEF CheckQuota, Advance, RollBack, End, Unchecked
<1>9. ASSUME NEW t \in Txs, Meter(t) PROVE Exclusive'
  BY <1>9 DEF Meter, Advance, Unchecked
<1>10. ASSUME NEW t \in Txs, Commit(t) PROVE Exclusive'
  BY <1>10 DEF Commit, Credit, Debit, End
<1>11. ASSUME NEW t \in Txs, Abort(t) PROVE Exclusive'
  BY <1>11 DEF Abort, RollBack, End
<1>12. ASSUME NEW q \in Quotas, SetQuota(q) PROVE Exclusive'
  BY <1>12 DEF SetQuota
<1>13. ASSUME NEW n \in Nonces, ExpireGrant(n) PROVE Exclusive'
  BY <1>13 DEF ExpireGrant
<1>14. ASSUME NEW n \in Nonces, PruneGrant(n) PROVE Exclusive'
  BY <1>14 DEF PruneGrant
<1>17. ASSUME NEW n \in Nonces, MintGrant(n) PROVE Exclusive'
  BY <1>17 DEF MintGrant
<1>15. ASSUME NEW f \in Files, Purge(f) PROVE Exclusive'
  BY <1>15 DEF Purge
<1>16. CASE UNCHANGED vars
  BY <1>16 DEF vars
<1> QED
  BY <1>1, <1>2, <1>3, <1>4, <1>5, <1>6, <1>7, <1>8, <1>9, <1>10, <1>11, <1>12, <1>13, <1>14, <1>15, <1>16, <1>17 DEF Next, Step

(* What a lock protects does not change under its holder. *)
LEMMA FoundStep ==
  TypeOK /\ PhaseInv /\ Exclusive /\ FoundInv /\ GrantInv /\ [Next]_vars => (FoundInv /\ GrantInv)'
<1> SUFFICES ASSUME TypeOK, PhaseInv, Exclusive, FoundInv, GrantInv, [Next]_vars PROVE (FoundInv /\ GrantInv)'
  OBVIOUS
<1> USE NoFileAssumption, NonceAssumption, SizeAssumption, QuotasAssumption
    DEF TypeOK, Ops, Phases, PhaseInv, Exclusive, FoundInv, GrantInv, db, txVars, HoldsUsage, HoldsGrant, HoldsRow, HoldsAdvisory
<1>1. ASSUME NEW t \in Txs, NEW f \in Files, BeginUpload(t, f) PROVE (FoundInv /\ GrantInv)'
  BY <1>1 DEF BeginUpload, Begin
<1>2. ASSUME NEW t \in Txs, NEW f \in Files, BeginDelete(t, f) PROVE (FoundInv /\ GrantInv)'
  BY <1>2 DEF BeginDelete, Begin
<1>3. ASSUME NEW t \in Txs, NEW f \in Files, BeginRestore(t, f) PROVE (FoundInv /\ GrantInv)'
  BY <1>3 DEF BeginRestore, Begin
<1>4. ASSUME NEW t \in Txs, Consume(t) PROVE (FoundInv /\ GrantInv)'
  BY <1>4 DEF Consume, Advance, RollBack, End
<1>5. ASSUME NEW t \in Txs, MarkDeleted(t) PROVE (FoundInv /\ GrantInv)'
  BY <1>5 DEF MarkDeleted, Advance, RollBack, End
<1>6. ASSUME NEW t \in Txs, LockAdvisory(t) PROVE (FoundInv /\ GrantInv)'
  BY <1>6 DEF LockAdvisory, Advance
<1>7. ASSUME NEW t \in Txs, MarkRestored(t) PROVE (FoundInv /\ GrantInv)'
  BY <1>7 DEF MarkRestored, Advance, RollBack, End
<1>8. ASSUME NEW t \in Txs, CheckQuota(t) PROVE (FoundInv /\ GrantInv)'
  BY <1>8 DEF CheckQuota, Advance, RollBack, End, Unchecked
<1>9. ASSUME NEW t \in Txs, Meter(t) PROVE (FoundInv /\ GrantInv)'
  BY <1>9 DEF Meter, Advance, Unchecked
<1>10. ASSUME NEW t \in Txs, Commit(t) PROVE (FoundInv /\ GrantInv)'
  BY <1>10 DEF Commit, Credit, Debit, End
<1>11. ASSUME NEW t \in Txs, Abort(t) PROVE (FoundInv /\ GrantInv)'
  BY <1>11 DEF Abort, RollBack, End
<1>12. ASSUME NEW q \in Quotas, SetQuota(q) PROVE (FoundInv /\ GrantInv)'
  BY <1>12 DEF SetQuota
<1>13. ASSUME NEW n \in Nonces, ExpireGrant(n) PROVE (FoundInv /\ GrantInv)'
  BY <1>13 DEF ExpireGrant
<1>14. ASSUME NEW n \in Nonces, PruneGrant(n) PROVE (FoundInv /\ GrantInv)'
  BY <1>14 DEF PruneGrant
<1>17. ASSUME NEW n \in Nonces, MintGrant(n) PROVE (FoundInv /\ GrantInv)'
  BY <1>17 DEF MintGrant
<1>15. ASSUME NEW f \in Files, Purge(f) PROVE (FoundInv /\ GrantInv)'
  BY <1>15 DEF Purge
<1>16. CASE UNCHANGED vars
  BY <1>16 DEF vars
<1> QED
  BY <1>1, <1>2, <1>3, <1>4, <1>5, <1>6, <1>7, <1>8, <1>9, <1>10, <1>11, <1>12, <1>13, <1>14, <1>15, <1>16, <1>17 DEF Next, Step

(* A grant that admitted a file is consumed or gone. *)
LEMMA NonceStep ==
  TypeOK /\ PhaseInv /\ Exclusive /\ FoundInv /\ GrantInv /\ NonceSingleUse /\ [Next]_vars => NonceSingleUse'
<1> SUFFICES ASSUME TypeOK, PhaseInv, Exclusive, FoundInv, GrantInv, NonceSingleUse, [Next]_vars PROVE NonceSingleUse'
  OBVIOUS
<1> USE NoFileAssumption, NonceAssumption, SizeAssumption, QuotasAssumption
    DEF TypeOK, PhaseInv, FoundInv, GrantInv, NonceSingleUse, db, txVars, HoldsUsage, HoldsGrant, HoldsRow, HoldsAdvisory
<1>1. ASSUME NEW t \in Txs, NEW f \in Files, BeginUpload(t, f) PROVE NonceSingleUse'
  BY <1>1 DEF BeginUpload, Begin
<1>2. ASSUME NEW t \in Txs, NEW f \in Files, BeginDelete(t, f) PROVE NonceSingleUse'
  BY <1>2 DEF BeginDelete, Begin
<1>3. ASSUME NEW t \in Txs, NEW f \in Files, BeginRestore(t, f) PROVE NonceSingleUse'
  BY <1>3 DEF BeginRestore, Begin
<1>4. ASSUME NEW t \in Txs, Consume(t) PROVE NonceSingleUse'
  BY <1>4 DEF Consume, Advance, RollBack, End
<1>5. ASSUME NEW t \in Txs, MarkDeleted(t) PROVE NonceSingleUse'
  BY <1>5 DEF MarkDeleted, Advance, RollBack, End
<1>6. ASSUME NEW t \in Txs, LockAdvisory(t) PROVE NonceSingleUse'
  BY <1>6 DEF LockAdvisory, Advance
<1>7. ASSUME NEW t \in Txs, MarkRestored(t) PROVE NonceSingleUse'
  BY <1>7 DEF MarkRestored, Advance, RollBack, End
<1>8. ASSUME NEW t \in Txs, CheckQuota(t) PROVE NonceSingleUse'
  BY <1>8 DEF CheckQuota, Advance, RollBack, End, Unchecked
<1>9. ASSUME NEW t \in Txs, Meter(t) PROVE NonceSingleUse'
  BY <1>9 DEF Meter, Advance, Unchecked
<1>10. ASSUME NEW t \in Txs, Commit(t) PROVE NonceSingleUse'
  BY <1>10 DEF Commit, Credit, Debit, End
<1>11. ASSUME NEW t \in Txs, Abort(t) PROVE NonceSingleUse'
  BY <1>11 DEF Abort, RollBack, End
<1>12. ASSUME NEW q \in Quotas, SetQuota(q) PROVE NonceSingleUse'
  BY <1>12 DEF SetQuota
<1>13. ASSUME NEW n \in Nonces, ExpireGrant(n) PROVE NonceSingleUse'
  BY <1>13 DEF ExpireGrant
<1>14. ASSUME NEW n \in Nonces, PruneGrant(n) PROVE NonceSingleUse'
  BY <1>14 DEF PruneGrant
<1>17. ASSUME NEW n \in Nonces, MintGrant(n) PROVE NonceSingleUse'
  BY <1>17 DEF MintGrant
<1>15. ASSUME NEW f \in Files, Purge(f) PROVE NonceSingleUse'
  BY <1>15 DEF Purge
<1>16. CASE UNCHANGED vars
  BY <1>16 DEF vars
<1> QED
  BY <1>1, <1>2, <1>3, <1>4, <1>5, <1>6, <1>7, <1>8, <1>9, <1>10, <1>11, <1>12, <1>13, <1>14, <1>15, <1>16, <1>17 DEF Next, Step

(* Room found under the counters' lock is there at the commit. *)
LEMMA QuotaStep ==
  TypeOK /\ PhaseInv /\ Exclusive /\ FoundInv /\ GrantInv /\ QuotaReserved /\ [Next]_vars => QuotaReserved'
<1> SUFFICES ASSUME TypeOK, PhaseInv, Exclusive, FoundInv, GrantInv, QuotaReserved, [Next]_vars PROVE QuotaReserved'
  OBVIOUS
<1> USE NoFileAssumption, NonceAssumption, SizeAssumption, QuotasAssumption
    DEF TypeOK, Ops, Phases, PhaseInv, Exclusive, QuotaReserved, db, txVars, HoldsUsage, HoldsGrant, HoldsRow, HoldsAdvisory
<1>1. ASSUME NEW t \in Txs, NEW f \in Files, BeginUpload(t, f) PROVE QuotaReserved'
  BY <1>1 DEF BeginUpload, Begin
<1>2. ASSUME NEW t \in Txs, NEW f \in Files, BeginDelete(t, f) PROVE QuotaReserved'
  BY <1>2 DEF BeginDelete, Begin
<1>3. ASSUME NEW t \in Txs, NEW f \in Files, BeginRestore(t, f) PROVE QuotaReserved'
  BY <1>3 DEF BeginRestore, Begin
<1>4. ASSUME NEW t \in Txs, Consume(t) PROVE QuotaReserved'
  BY <1>4 DEF Consume, Advance, RollBack, End
<1>5. ASSUME NEW t \in Txs, MarkDeleted(t) PROVE QuotaReserved'
  BY <1>5 DEF MarkDeleted, Advance, RollBack, End
<1>6. ASSUME NEW t \in Txs, LockAdvisory(t) PROVE QuotaReserved'
  BY <1>6 DEF LockAdvisory, Advance
<1>7. ASSUME NEW t \in Txs, MarkRestored(t) PROVE QuotaReserved'
  BY <1>7 DEF MarkRestored, Advance, RollBack, End
<1>8. ASSUME NEW t \in Txs, CheckQuota(t) PROVE QuotaReserved'
  <2>1. on[t] \in Files /\ \A u \in Txs : ~HoldsUsage(u)
    BY <1>8 DEF CheckQuota, Unchecked
  <2>2. CASE used + Size[on[t]] > seen[t]
    BY <1>8, <2>1, <2>2 DEF CheckQuota, RollBack, End
  <2>3. CASE ~(used + Size[on[t]] > seen[t])
    <3>0. used \in Nat /\ Size[on[t]] \in Nat /\ seen[t] \in Nat
      BY <2>1
    <3>1. used + Size[on[t]] <= seen[t]
      BY <2>3, <3>0
    <3>2. /\ at' = [at EXCEPT ![t] = "checked"]
          /\ UNCHANGED <<used, op, on, seen>>
      BY <1>8, <2>3 DEF CheckQuota, Advance
    <3>3. SUFFICES ASSUME NEW u \in Txs, u # t, HoldsUsage(u)' PROVE FALSE
      BY <3>1, <3>2 DEF QuotaReserved
    <3> QED
      BY <2>1, <3>2, <3>3
  <2> QED
    BY <2>2, <2>3
<1>9. ASSUME NEW t \in Txs, Meter(t) PROVE QuotaReserved'
  BY <1>9 DEF Meter, Advance, Unchecked
<1>10. ASSUME NEW t \in Txs, Commit(t) PROVE QuotaReserved'
  BY <1>10 DEF Commit, Credit, Debit, End
<1>11. ASSUME NEW t \in Txs, Abort(t) PROVE QuotaReserved'
  BY <1>11 DEF Abort, RollBack, End
<1>12. ASSUME NEW q \in Quotas, SetQuota(q) PROVE QuotaReserved'
  BY <1>12 DEF SetQuota
<1>13. ASSUME NEW n \in Nonces, ExpireGrant(n) PROVE QuotaReserved'
  BY <1>13 DEF ExpireGrant
<1>14. ASSUME NEW n \in Nonces, PruneGrant(n) PROVE QuotaReserved'
  BY <1>14 DEF PruneGrant
<1>17. ASSUME NEW n \in Nonces, MintGrant(n) PROVE QuotaReserved'
  BY <1>17 DEF MintGrant
<1>15. ASSUME NEW f \in Files, Purge(f) PROVE QuotaReserved'
  BY <1>15 DEF Purge
<1>16. CASE UNCHANGED vars
  BY <1>16 DEF vars
<1> QED
  BY <1>1, <1>2, <1>3, <1>4, <1>5, <1>6, <1>7, <1>8, <1>9, <1>10, <1>11, <1>12, <1>13, <1>14, <1>15, <1>16, <1>17 DEF Next, Step

(* One row more or one row less among the live ones. *)
LEMMA LiveFinite == IsFiniteSet(Live) /\ Cardinality(Live) \in Nat /\ Live \in SUBSET Files
  BY FilesFinite, FS_Subset, FS_CardinalityType DEF Live

LEMMA LiveAdded ==
  ASSUME TypeOK, NEW f \in Files, row[f] # "live", row' = [row EXCEPT ![f] = "live"]
  PROVE  /\ Cardinality(Live') = Cardinality(Live) + 1
         /\ Total[Live'] = Total[Live] + Size[f]
<1>1. Live' = Live \cup {f} /\ f \in Files \ Live
  BY DEF TypeOK, Live
<1>2. Total[Live'] = Total[Live] + Size[f]
  BY <1>1, LiveFinite, TotalAssumption
<1> QED
  BY <1>1, <1>2, LiveFinite, FS_AddElement

LEMMA LiveRemoved ==
  ASSUME TypeOK, NEW f \in Files, row[f] = "live",
         NEW s, s # "live", row' = [row EXCEPT ![f] = s]
  PROVE  /\ Cardinality(Live') = Cardinality(Live) - 1 /\ Cardinality(Live) # 0
         /\ Total[Live'] = Total[Live] - Size[f] /\ Size[f] <= Total[Live]
<1>1. Live' = Live \ {f} /\ f \in Live
  BY DEF TypeOK, Live
<1>2. Total[Live] = Total[Live'] + Size[f]
  <2>1. Live' \in SUBSET Files /\ f \in Files \ Live' /\ Live = Live' \cup {f}
    BY <1>1, LiveFinite
  <2> QED
    BY <2>1, TotalAssumption
<1>3. Total[Live'] \in Nat /\ Total[Live] \in Nat /\ Size[f] \in Nat
  BY <1>1, LiveFinite, TotalAssumption, SizeAssumption
<1>4. Total[Live'] = Total[Live] - Size[f] /\ Size[f] <= Total[Live]
  BY <1>2, <1>3
<1> QED
  BY <1>1, <1>4, LiveFinite, FS_RemoveElement, FS_EmptySet

(* Locks keep what a transaction found, so its commit is an atomic operation. *)
LEMMA CommitIsAtomic ==
  ASSUME IInv, NEW t \in Txs, Commit(t)
  PROVE  /\ on[t] \in Files
         /\ \/ Atomically!Upload(on[t])
            \/ Atomically!Delete(on[t])
            \/ Atomically!Restore(on[t])
<1> DEFINE f == on[t]
<1>1. f \in Files /\ at[t] = "metered"
  BY DEF Commit, IInv, PhaseInv
<1>2. CASE op[t] = "upload"
  <2>1. grant[Nonce[f]] \in {"open", "expired"} /\ row[f] = "none"
    BY <1>1, <1>2, NonceAssumption DEF IInv, FoundInv, GrantInv, HoldsGrant
  <2> QED
    BY <1>1, <1>2, <2>1 DEF Commit, Credit, Atomically!Upload, Atomically!Unused, Atomically!Move
<1>3. CASE op[t] = "delete"
  <2>1. row[f] = "live"
    BY <1>1, <1>3 DEF IInv, FoundInv, HoldsRow
  <2>2. row' = [row EXCEPT ![f] = "trash"] /\ UNCHANGED grant /\ Debit(f)
    BY <1>3 DEF Commit
  <2>3. count # 0 /\ count \in Nat /\ used \in Nat /\ Size[f] \in Nat /\ Size[f] <= used
    BY <1>1, <2>1, <2>2, LiveRemoved, SizeAssumption DEF IInv, TypeOK, CountersExact
  <2>4. used' = used - Size[f] /\ count' = count - 1
    BY <2>2, <2>3 DEF Debit
  <2> QED
    BY <1>1, <2>1, <2>2, <2>3, <2>4 DEF Atomically!Delete, Atomically!Move
<1>4. CASE op[t] = "restore"
  <2>1. row[f] = "trash"
    BY <1>1, <1>4 DEF IInv, FoundInv, HoldsRow
  <2> QED
    BY <1>1, <1>4, <2>1 DEF Commit, Credit, Atomically!Restore, Atomically!Move
<1> QED
  BY <1>1, <1>2, <1>3, <1>4 DEF Commit

(* Every other step is one of the collector's or the clock's, or a stutter. *)
LEMMA StepIsAtomic ==
  ASSUME IInv, [Next]_vars
  PROVE  [Atomically!Next]_(Atomically!vars)
<1>1. ASSUME NEW t \in Txs, Commit(t) PROVE Atomically!Next
  BY <1>1, CommitIsAtomic DEF Atomically!Next
<1>2. ASSUME NEW t \in Txs, Step(t), ~Commit(t) PROVE UNCHANGED db
  BY <1>2 DEF Step, Consume, MarkDeleted, LockAdvisory, MarkRestored, CheckQuota, Meter,
       Advance, RollBack, End
<1>3. ASSUME NEW t \in Txs, Abort(t) PROVE UNCHANGED db
  BY <1>3 DEF Abort, RollBack
<1>4. ASSUME NEW t \in Txs, NEW f \in Files,
             BeginUpload(t, f) \/ BeginDelete(t, f) \/ BeginRestore(t, f)
      PROVE  UNCHANGED db
  BY <1>4 DEF BeginUpload, BeginDelete, BeginRestore, Begin
<1>5. ASSUME (\E q \in Quotas : SetQuota(q)) \/ UNCHANGED vars PROVE UNCHANGED db
  BY <1>5 DEF SetQuota, vars
<1>6. ASSUME NEW n \in Nonces, MintGrant(n) \/ ExpireGrant(n) \/ PruneGrant(n)
      PROVE  Atomically!Next
  BY <1>6 DEF MintGrant, ExpireGrant, PruneGrant, Atomically!Next, Atomically!Mint,
       Atomically!Expire, Atomically!Prune
<1>7. ASSUME NEW f \in Files, Purge(f) PROVE Atomically!Next
  BY <1>7 DEF Purge, Atomically!Next, Atomically!Purge, Atomically!Move
<1> QED
  BY <1>1, <1>2, <1>3, <1>4, <1>5, <1>6, <1>7 DEF Next, db, Atomically!vars

(* The counters follow every atomic operation. *)
LEMMA CountersStep ==
  ASSUME IInv, TypeOK', [Atomically!Next]_(Atomically!vars)
  PROVE  CountersExact'
<1> USE DEF IInv, CountersExact, Atomically!Move
<1>1. ASSUME NEW f \in Files, Atomically!Upload(f) PROVE CountersExact'
  BY <1>1, LiveAdded DEF Atomically!Upload
<1>2. ASSUME NEW f \in Files, Atomically!Delete(f) PROVE CountersExact'
  BY <1>2, LiveRemoved DEF Atomically!Delete
<1>3. ASSUME NEW f \in Files, Atomically!Restore(f) PROVE CountersExact'
  BY <1>3, LiveAdded DEF Atomically!Restore
<1>4. ASSUME NEW f \in Files, Atomically!Purge(f) PROVE CountersExact'
  <2>1. Live' = Live
    BY <1>4 DEF Atomically!Purge, Live, TypeOK
  <2> QED
    BY <1>4, <2>1 DEF Atomically!Purge
<1>5. ASSUME UNCHANGED <<row, used, count>> PROVE CountersExact'
  BY <1>5 DEF Live
<1> QED
  BY <1>1, <1>2, <1>3, <1>4, <1>5
     DEF Atomically!Next, Atomically!Mint, Atomically!Expire, Atomically!Prune,
         Atomically!vars

-----------------------------------------------------------------------------
LEMMA Inductive == Spec => []IInv
<1>1. Init => IInv
  <2> SUFFICES ASSUME Init PROVE IInv
    OBVIOUS
  <2>1. Live = {}
    BY DEF Init, Live
  <2>2. CountersExact
    BY <2>1, FS_EmptySet, TotalAssumption DEF CountersExact, Init
  <2> QED
    BY <2>2, QuotasAssumption DEF Init, IInv, TypeOK, Ops, Phases, PhaseInv, Exclusive, FoundInv,
         GrantInv, NonceSingleUse, QuotaReserved, HoldsUsage, HoldsGrant, HoldsRow,
         HoldsAdvisory
<1>2. IInv /\ [Next]_vars => IInv'
  BY TypeStep, ExclusiveStep, FoundStep, NonceStep, QuotaStep, StepIsAtomic,
     CountersStep DEF IInv
<1> QED
  BY <1>1, <1>2, PTL DEF Spec

(* Type correctness of Ledger. *)
THEOREM TypeCorrect == Spec => []TypeOK
  BY Inductive, PTL DEF IInv

(* A grant admits one file at most, however many connections replay its token. *)
THEOREM GrantsAreSingleUse == Spec => []NonceSingleUse
  BY Inductive, PTL DEF IInv

(* object_count and used_bytes are exact after any interleaving of uploads,     *)
(* deletes and restores: no debit is ever floored.                             *)
THEOREM CountersAreExact == Spec => []CountersExact
  BY Inductive, PTL DEF IInv

(* No two transactions are granted the same room under a quota. *)
THEOREM QuotaIsReserved == Spec => []QuotaReserved
  BY Inductive, PTL DEF IInv

(* Interleaved statement by statement, the transactions implement atomic ones. *)
THEOREM TransactionsAreAtomic == Spec => Atomic
<1>1. Init => Atomically!Init
  BY DEF Init, Atomically!Init
<1>2. IInv /\ [Next]_vars => [Atomically!Next]_(Atomically!vars)
  BY StepIsAtomic
<1> QED
  BY Inductive, <1>1, <1>2, PTL DEF Spec, Atomic, Atomically!Spec
=============================================================================
