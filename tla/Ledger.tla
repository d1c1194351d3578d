------------------------------- MODULE Ledger -------------------------------
(***************************************************************************)
(* The transactions of one tenant: upload, delete and restore, statement   *)
(* by statement, as READ COMMITTED runs them.  A statement that updates a  *)
(* row waits for the transaction that holds the row's lock and then looks  *)
(* at the committed row; what a transaction wrote is seen at its commit.   *)
(* A lock is held from the statement that takes it to the end of the       *)
(* transaction, so who holds it follows from how far each one is.          *)
(***************************************************************************)
EXTENDS Naturals, FiniteSets

CONSTANTS
  Txs,      \* connections of the pool, each runs one transaction at a time
  Files,    \* uploads, each with the row it would insert
  Nonces,   \* single-use grants
  Nonce,    \* the grant each upload presents; a replay presents a used one
  Size,     \* the bytes of each upload
  Total,    \* the bytes of a set of uploads
  Quotas,   \* values tenants.quota_bytes may take, 0 is unlimited
  NoFile

ASSUME NoFileAssumption == NoFile \notin Files
ASSUME NonceAssumption == Nonce \in [Files -> Nonces]
ASSUME SizeAssumption == Size \in [Files -> Nat]
ASSUME TotalAssumption ==
  /\ Total \in [SUBSET Files -> Nat]
  /\ Total[{}] = 0
  /\ \A S \in SUBSET Files : \A f \in Files \ S : Total[S \cup {f}] = Total[S] + Size[f]
ASSUME QuotasAssumption == Quotas \subseteq Nat /\ 0 \in Quotas
ASSUME FilesFinite == IsFiniteSet(Files)

VARIABLES
  row,       \* the row of each file, as committed
  grant,     \* the row of each nonce in upload_grants, as committed
  used,      \* usage_counters.used_bytes
  count,     \* usage_counters.object_count
  quota,     \* tenants.quota_bytes
  op, on, at,   \* each transaction: what it does, to which file, how far it is
  seen       \* the quota each transaction's request loaded with its tenant

db == <<row, grant, used, count>>
txVars == <<op, on, at, seen>>
vars == <<db, quota, txVars>>

Ops == {"none", "upload", "delete", "restore"}
Phases == {"idle", "begin", "locked", "consumed", "marked", "checked", "metered"}

TypeOK ==
  /\ row \in [Files -> {"none", "live", "trash", "purged"}]
  /\ grant \in [Nonces -> {"none", "open", "expired", "consumed", "pruned"}]
  /\ used \in Nat
  /\ count \in Nat
  /\ quota \in Quotas
  /\ op \in [Txs -> Ops]
  /\ on \in [Txs -> Files \cup {NoFile}]
  /\ at \in [Txs -> Phases]
  /\ seen \in [Txs -> Quotas]

Init ==
  /\ row = [f \in Files |-> "none"]
  /\ grant = [n \in Nonces |-> "none"]
  /\ used = 0 /\ count = 0
  /\ quota \in Quotas
  /\ op = [t \in Txs |-> "none"]
  /\ on = [t \in Txs |-> NoFile]
  /\ at = [t \in Txs |-> "idle"]
  /\ seen = [t \in Txs |-> 0]

-----------------------------------------------------------------------------
(* Locks *)

HoldsGrant(t, n) ==
  op[t] = "upload" /\ at[t] \in {"consumed", "checked", "metered"} /\ Nonce[on[t]] = n

HoldsRow(t, f) ==
  op[t] \in {"delete", "restore"} /\ at[t] \in {"marked", "checked", "metered"} /\ on[t] = f

HoldsUsage(t) == at[t] \in {"checked", "metered"}

(* The advisory lock that restores share with the collector. *)
HoldsAdvisory(t) ==
  op[t] = "restore" /\ at[t] \in {"locked", "marked", "checked", "metered"}

(* Steps of a transaction *)

Begin(t, o, f) ==
  /\ at[t] = "idle"
  /\ op' = [op EXCEPT ![t] = o]
  /\ on' = [on EXCEPT ![t] = f]
  /\ at' = [at EXCEPT ![t] = "begin"]
  /\ seen' = [seen EXCEPT ![t] = quota]
  /\ UNCHANGED <<db, quota>>

Advance(t, phase) ==
  /\ at' = [at EXCEPT ![t] = phase]
  /\ UNCHANGED <<db, quota, op, on, seen>>

(* The end of a transaction, committed or rolled back. *)
End(t) ==
  /\ op' = [op EXCEPT ![t] = "none"]
  /\ on' = [on EXCEPT ![t] = NoFile]
  /\ at' = [at EXCEPT ![t] = "idle"]
  /\ seen' = [seen EXCEPT ![t] = 0]
  /\ UNCHANGED quota

RollBack(t) == End(t) /\ UNCHANGED db

-----------------------------------------------------------------------------
(* `files::upload` with a token that was minted.  expires_at is compared with the
   time the transaction began, so an upload whose grant has expired by then
   changes nothing and is left out. *)
BeginUpload(t, f) ==
  /\ row[f] = "none"
  /\ \A u \in Txs : ~(op[u] = "upload" /\ on[u] = f)
  /\ grant[Nonce[f]] \notin {"none", "expired"}
  /\ Begin(t, "upload", f)

(* A seeded fault: the grant is looked at, and marked later. *)
ConsumeUnlocked(t) ==
  /\ op[t] = "upload" /\ at[t] = "begin"
  /\ IF grant[Nonce[on[t]]] \in {"open", "expired"}
     THEN Advance(t, "consumed")
     ELSE RollBack(t)

(* UPDATE upload_grants SET consumed_at ... WHERE consumed_at IS NULL *)
Consume(t) ==
  /\ op[t] = "upload" /\ at[t] = "begin"
  /\ \A u \in Txs : ~HoldsGrant(u, Nonce[on[t]])
  /\ IF grant[Nonce[on[t]]] \in {"open", "expired"}
     THEN Advance(t, "consumed")
     ELSE RollBack(t)

(* `files::delete_file`, UPDATE files ... WHERE deleted_at IS NULL.  A row that
   does not match is not waited for. *)
BeginDelete(t, f) == row[f] # "none" /\ Begin(t, "delete", f)

(* A seeded fault: the row is read, not locked. *)
MarkDeletedUnlocked(t) ==
  /\ op[t] = "delete" /\ at[t] = "begin"
  /\ IF row[on[t]] = "live" THEN Advance(t, "marked") ELSE RollBack(t)

MarkDeleted(t) ==
  /\ op[t] = "delete" /\ at[t] = "begin"
  /\ IF row[on[t]] = "live"
     THEN /\ \A u \in Txs : ~HoldsRow(u, on[t])
          /\ Advance(t, "marked")
     ELSE RollBack(t)

(* `files::restore_file` *)
BeginRestore(t, f) == row[f] # "none" /\ Begin(t, "restore", f)

LockAdvisory(t) ==
  /\ op[t] = "restore" /\ at[t] = "begin"
  /\ \A u \in Txs : ~HoldsAdvisory(u)
  /\ Advance(t, "locked")

(* A seeded fault: a missing row leaves the transaction open. *)
MarkRestoredLeaks(t) ==
  /\ op[t] = "restore" /\ at[t] = "locked"
  /\ row[on[t]] = "trash"
  /\ \A u \in Txs : ~HoldsRow(u, on[t])
  /\ Advance(t, "marked")

MarkRestored(t) ==
  /\ op[t] = "restore" /\ at[t] = "locked"
  /\ IF row[on[t]] = "trash"
     THEN /\ \A u \in Txs : ~HoldsRow(u, on[t])
          /\ Advance(t, "marked")
     ELSE RollBack(t)

(* Before the quota check of an upload or a restore. *)
Unchecked(t) ==
  \/ op[t] = "upload" /\ at[t] = "consumed"
  \/ op[t] = "restore" /\ at[t] = "marked"

(* A seeded fault: a plain SELECT. *)
CheckQuotaUnlocked(t) ==
  /\ Unchecked(t)
  /\ seen[t] > 0
  /\ IF used + Size[on[t]] > seen[t] THEN RollBack(t) ELSE Advance(t, "checked")

(* SELECT used_bytes ... FOR UPDATE, skipped for an unlimited tenant. *)
CheckQuota(t) ==
  /\ Unchecked(t)
  /\ seen[t] > 0
  /\ \A u \in Txs : ~HoldsUsage(u)
  /\ IF used + Size[on[t]] > seen[t] THEN RollBack(t) ELSE Advance(t, "checked")

(* `usage::record_upload`, `record_restore` and `record_delete` take the lock of
   the counters' row if the quota check has not. *)
Meter(t) ==
  /\ \/ Unchecked(t) /\ seen[t] = 0
     \/ op[t] = "delete" /\ at[t] = "marked"
     \/ at[t] = "checked"
  /\ \A u \in Txs \ {t} : ~HoldsUsage(u)
  /\ Advance(t, "metered")

Credit(f) == used' = used + Size[f] /\ count' = count + 1

(* A seeded fault: the operands are swapped. *)
DebitSwapped(f) ==
  /\ used' = Size[f] - used
  /\ count' = IF count = 0 THEN 0 ELSE count - 1

(* GREATEST(0, ...) *)
Debit(f) ==
  /\ used' = IF Size[f] > used THEN 0 ELSE used - Size[f]
  /\ count' = IF count = 0 THEN 0 ELSE count - 1

Commit(t) ==
  LET f == on[t] IN
  /\ at[t] = "metered"
  /\ \/ /\ op[t] = "upload"
        /\ row' = [row EXCEPT ![f] = "live"]
        /\ grant' = [grant EXCEPT ![Nonce[f]] = "consumed"]
        /\ Credit(f)
     \/ /\ op[t] = "delete"
        /\ row' = [row EXCEPT ![f] = "trash"]
        /\ Debit(f)
        /\ UNCHANGED grant
     \/ /\ op[t] = "restore"
        /\ row' = [row EXCEPT ![f] = "live"]
        /\ Credit(f)
        /\ UNCHANGED grant
  /\ End(t)

(* An error, a missing blob, a dropped future or a lost connection. *)
Abort(t) == at[t] # "idle" /\ RollBack(t)

-----------------------------------------------------------------------------
(* The rest of the system, each step a transaction of its own. *)

(* `tenants::set_quota` *)
SetQuota(q) ==
  /\ q # quota
  /\ quota' = q
  /\ UNCHANGED <<db, txVars>>

(* `grants::mint_grant` inserts the grant before anyone has its token. *)
MintGrant(n) ==
  /\ grant[n] = "none"
  /\ grant' = [grant EXCEPT ![n] = "open"]
  /\ UNCHANGED <<row, used, count, quota, txVars>>

(* A grant's expiry passes. *)
ExpireGrant(n) ==
  /\ grant[n] = "open"
  /\ grant' = [grant EXCEPT ![n] = "expired"]
  /\ UNCHANGED <<row, used, count, quota, txVars>>

(* `gc::run_grant_pruner` deletes consumed and long expired grants. *)
PruneGrant(n) ==
  /\ grant[n] \in {"consumed", "expired"}
  /\ \A t \in Txs : ~HoldsGrant(t, n)
  /\ grant' = [grant EXCEPT ![n] = "pruned"]
  /\ UNCHANGED <<row, used, count, quota, txVars>>

(* A seeded fault: the collector takes no lock. *)
PurgeUnlocked(f) ==
  /\ row[f] = "trash"
  /\ row' = [row EXCEPT ![f] = "purged"]
  /\ UNCHANGED <<grant, used, count, quota, txVars>>

(* The collector purges a tombstone, under the advisory lock. *)
Purge(f) ==
  /\ row[f] = "trash"
  /\ \A t \in Txs : ~HoldsAdvisory(t)
  /\ row' = [row EXCEPT ![f] = "purged"]
  /\ UNCHANGED <<grant, used, count, quota, txVars>>

Step(t) ==
  \/ Consume(t) \/ MarkDeleted(t) \/ LockAdvisory(t) \/ MarkRestored(t)
  \/ CheckQuota(t) \/ Meter(t) \/ Commit(t)

Next ==
  \/ \E t \in Txs, f \in Files :
       BeginUpload(t, f) \/ BeginDelete(t, f) \/ BeginRestore(t, f)
  \/ \E t \in Txs : Step(t) \/ Abort(t)
  \/ \E q \in Quotas : SetQuota(q)
  \/ \E n \in Nonces : MintGrant(n) \/ ExpireGrant(n) \/ PruneGrant(n)
  \/ \E f \in Files : Purge(f)

Spec == Init /\ [][Next]_vars

-----------------------------------------------------------------------------
(* Properties. *)

Live == {f \in Files : row[f] = "live"}

(* A grant's nonce admits at most one file, however its token is replayed,     *)
(* concurrently or after the pruner removed the consumed grant.                *)
NonceSingleUse ==
  \A f, g \in Files :
    row[f] # "none" /\ row[g] # "none" /\ Nonce[f] = Nonce[g] => f = g

(* object_count is the number of live files and used_bytes the sum of their     *)
(* sizes: no delete or restore is metered twice or not at all, and GREATEST    *)
(* never hides a missing credit.                                               *)
CountersExact == count = Cardinality(Live) /\ used = Total[Live]

(* A transaction past its quota check keeps the room it found until it         *)
(* commits, against the quota its request loaded: no two uploads or restores   *)
(* take the same room.                                                         *)
QuotaReserved ==
  \A t \in Txs :
    op[t] \in {"upload", "restore"} /\ HoldsUsage(t) /\ seen[t] > 0
      => used + Size[on[t]] <= seen[t]

(* Statement by statement, with locks that each cover a part, the transactions *)
(* come to the same as atomic ones: each commit is one atomic operation on a    *)
(* row still in the state its first statement matched.                         *)
Atomically == INSTANCE AtomicLedger
Atomic == Atomically!Spec

-----------------------------------------------------------------------------
(* Liveness.  PostgreSQL queues lock waiters, so a statement that can proceed   *)
(* again and again does: strong fairness.  Nothing makes a transaction abort.  *)
FairSpec == Spec /\ \A t \in Txs : SF_vars(Step(t))

(* Every transaction ends: the order in which grant, advisory, file and usage  *)
(* locks are taken admits no deadlock.                                         *)
TransactionsEnd == \A t \in Txs : at[t] # "idle" ~> at[t] = "idle"
=============================================================================
