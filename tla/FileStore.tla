----------------------------- MODULE FileStore -----------------------------
(***************************************************************************)
(* Rows and bytes.  A file is a row of the `files` table and a blob in the *)
(* store; no transaction spans the two.  Five activities touch them, each  *)
(* a sequence of awaited steps that interleave freely:                     *)
(*   - an upload (files::upload) writes its blob, looks for live identical *)
(*     bytes, and inserts its row in a later transaction;                  *)
(*   - a delete (files::delete_file) turns the row into a tombstone;       *)
(*   - a restore (files::restore_file) turns it back, under the GC lock;   *)
(*   - the collector (gc::run_gc) deletes blobs of old tombstones and      *)
(*     purges their rows, in one transaction under the same lock;          *)
(*   - reconcile (gc::run_reconcile) deletes blobs no row refers to.       *)
(* A file f of Files is one upload attempt: its id names its row and the   *)
(* storage key its bytes are streamed to.                                  *)
(***************************************************************************)
EXTENDS Naturals, FiniteSets

CONSTANTS
  Files,        \* upload attempts; each is also the storage key of its bytes
  Contents,     \* (tenant, sha256) pairs: what dedup compares
  Checksum,     \* the content of each upload
  Sweeps,       \* concurrent reconcile calls
  NoKey,        \* no storage key
  MaxLostAcks,  \* a bound: how many acknowledgements are lost
  Environments  \* the sets of timing assumptions to consider, see below

(***************************************************************************)
(* What a deployment may rely on, each a guard of the actions it restricts. *)
(*   QuietGc         no collector runs while an upload that found a        *)
(*                   duplicate has not inserted its row;                   *)
(*   PromptUploads   an upload inserts its row, or gives up, before its    *)
(*                   blob is older than reconcile's grace period;          *)
(*   ReliableAcks    a commit that is applied is acknowledged;             *)
(*   PromptDeletes   a delete does not begin before the cutoff of a        *)
(*                   collector it overlaps;                                *)
(*   AwaitedDeletes  a run that is dropped while the store deletes a blob   *)
(*                   takes that delete with it.                            *)
(***************************************************************************)
AllAssumptions ==
  {"QuietGc", "PromptUploads", "ReliableAcks", "PromptDeletes", "AwaitedDeletes"}

ASSUME FilesAssumption == NoKey \notin Files
ASSUME ChecksumAssumption == Checksum \in [Files -> Contents]
ASSUME BoundAssumption == MaxLostAcks \in Nat
ASSUME EnvironmentsAssumption == Environments \subseteq SUBSET AllAssumptions

VARIABLES
  env,       \* the assumptions that hold in this behaviour, fixed at Init
  row,       \* the row of each file, as committed
  key,       \* files.stored_key, chosen by dedup before the row is inserted
  blob,      \* the bytes under each storage key, and whether they are old
  up,        \* where each upload handler stands
  gcPhase, gcDue, gcTodo, gcKey, gcPurged,   \* the one running collector
  late,      \* keys whose delete outlives the run that asked for it
  rst,       \* where a restore of each file stands
  rcPhase, rcTodo, rcKey                     \* each reconcile call

gcVars == <<gcPhase, gcDue, gcTodo, gcKey, gcPurged, late>>
rcVars == <<rcPhase, rcTodo, rcKey>>
vars == <<env, row, key, blob, up, gcVars, rst, rcVars>>

(***************************************************************************)
(* A tombstone is "trash" until it passes the cutoff of the next collector *)
(* and "expired" after that; a purged row is gone from the table.          *)
(***************************************************************************)
RowStates == {"none", "live", "trash", "expired", "purged"}
Tombstone == {"trash", "expired"}
UploadStates ==
  {"idle", "written", "dropping", "ready", "cleanup", "done", "failed"}

(* The advisory lock, a transaction's own, has one holder: the collector or a *)
(* restore.                                                                   *)
OneLockHolder ==
  /\ gcPhase # "off" => \A f \in Files : rst[f] = "off"
  /\ \A f, g \in Files : rst[f] # "off" /\ rst[g] # "off" => f = g

(* Every variable has its type, and the lock that serialises collector and     *)
(* restores has one holder.                                                    *)
TypeOK ==
  /\ env \in Environments
  /\ row \in [Files -> RowStates]
  /\ key \in [Files -> Files]
  /\ blob \in [Files -> {"absent", "fresh", "old"}]
  /\ up \in [Files -> UploadStates]
  /\ gcPhase \in {"off", "pick", "reclaim", "purge"}
  /\ gcDue \subseteq Files
  /\ gcTodo \subseteq Files
  /\ gcKey \in Files \cup {NoKey}
  /\ gcPhase = "reclaim" => gcKey # NoKey
  /\ gcPurged \subseteq Files
  /\ late \subseteq Files
  /\ rst \in [Files -> {"off", "stat", "commit"}]
  /\ rcPhase \in [Sweeps -> {"off", "listed", "sweep"}]
  /\ rcTodo \in [Sweeps -> SUBSET Files]
  /\ rcKey \in [Sweeps -> Files \cup {NoKey}]
  /\ OneLockHolder

Init ==
  /\ env \in Environments
  /\ row = [f \in Files |-> "none"]
  /\ key = [f \in Files |-> f]
  /\ blob = [f \in Files |-> "absent"]
  /\ up = [f \in Files |-> "idle"]
  /\ gcPhase = "off" /\ gcDue = {} /\ gcTodo = {} /\ gcKey = NoKey
  /\ gcPurged = {} /\ late = {}
  /\ rst = [f \in Files |-> "off"]
  /\ rcPhase = [s \in Sweeps |-> "off"]
  /\ rcTodo = [s \in Sweeps |-> {}]
  /\ rcKey = [s \in Sweeps |-> NoKey]

(* The blob store's delete: idempotent, a missing key is no error. *)
DeleteBlob(k) == blob' = [blob EXCEPT ![k] = "absent"]

(* A delete whose error the caller ignores. *)
TryDeleteBlob(k) == DeleteBlob(k) \/ UNCHANGED blob

LiveRows(k) == {f \in Files : row[f] = "live" /\ key[f] = k}
HasRow(f) == row[f] \in {"live"} \cup Tombstone
Referenced(k) == \E f \in Files : HasRow(f) /\ key[f] = k

(* The advisory lock is held by the collector or by one restore. *)
LockFree == gcPhase = "off" /\ \A f \in Files : rst[f] = "off"

(* An upload that adopted another's key and has not inserted its row. *)
Adopting(f) == up[f] \in {"dropping", "ready"} /\ key[f] # f

(* An upload whose bytes are in the store and whose row may still come. *)
InFlight(f) == up[f] \in {"written", "ready"} /\ key[f] = f

-----------------------------------------------------------------------------
(* Uploads.  `files::upload` *)

(* The body is streamed to a fresh key and published by the writer's commit. *)
StreamBody(f) ==
  /\ up[f] = "idle"
  /\ up' = [up EXCEPT ![f] = "written"]
  /\ blob' = [blob EXCEPT ![f] = "fresh"]
  /\ UNCHANGED <<row, key, gcVars, rst, rcVars>>

(* Rejected or broken while streaming: the writer is aborted, no bytes stay. *)
StreamFails(f) ==
  /\ up[f] = "idle"
  /\ up' = [up EXCEPT ![f] = "failed"]
  /\ UNCHANGED <<row, key, blob, gcVars, rst, rcVars>>

(* The dedup query, outside any transaction: some live row with these bytes. *)
Duplicates(f) == {g \in Files : row[g] = "live" /\ Checksum[g] = Checksum[f]}

FindNoDuplicate(f) ==
  /\ up[f] = "written"
  /\ Duplicates(f) = {}
  /\ up' = [up EXCEPT ![f] = "ready"]
  /\ UNCHANGED <<row, key, blob, gcVars, rst, rcVars>>

FindDuplicate(f) ==
  /\ up[f] = "written"
  /\ "QuietGc" \in env => gcPhase = "off"
  /\ \E g \in Duplicates(f) : key' = [key EXCEPT ![f] = key[g]]
  /\ up' = [up EXCEPT ![f] = "dropping"]
  /\ UNCHANGED <<row, blob, gcVars, rst, rcVars>>

DropStaged(f) ==
  /\ up[f] = "dropping"
  /\ TryDeleteBlob(f)
  /\ up' = [up EXCEPT ![f] = "ready"]
  /\ UNCHANGED <<row, key, gcVars, rst, rcVars>>

(* The upload transaction: nonce, quota, row, usage and webhook.  The client is
   told, or has left while the commit was under way; either way no cleanup
   follows. *)
InsertRow(f) ==
  /\ up[f] = "ready"
  /\ row' = [row EXCEPT ![f] = "live"]
  /\ up' = [up EXCEPT ![f] = "done"]
  /\ UNCHANGED <<key, blob, gcVars, rst, rcVars>>

(* A seeded fault: the cleanup does not ask who wrote the bytes. *)
AfterErrorAlways(f) == "cleanup"

(* The handler got an error: it removes the bytes only if it wrote them. *)
AfterError(f) == IF key[f] = f THEN "cleanup" ELSE "failed"

InsertFails(f) ==
  /\ up[f] = "ready"
  /\ up' = [up EXCEPT ![f] = AfterError(f)]
  /\ UNCHANGED <<row, key, blob, gcVars, rst, rcVars>>

(* The commit was applied and its acknowledgement lost: the handler sees an
   error all the same. *)
InsertUnacknowledged(f) ==
  /\ "ReliableAcks" \notin env
  /\ Cardinality({g \in Files : row[g] # "none" /\ up[g] # "done"}) < MaxLostAcks
  /\ up[f] = "ready"
  /\ row' = [row EXCEPT ![f] = "live"]
  /\ up' = [up EXCEPT ![f] = AfterError(f)]
  /\ UNCHANGED <<key, blob, gcVars, rst, rcVars>>

Cleanup(f) ==
  /\ up[f] = "cleanup"
  /\ TryDeleteBlob(key[f])
  /\ up' = [up EXCEPT ![f] = "failed"]
  /\ UNCHANGED <<row, key, gcVars, rst, rcVars>>

(* The handler's future is dropped, by a crash or because the client left. *)
Cancel(f) ==
  /\ up[f] \in {"written", "dropping", "ready", "cleanup"}
  /\ up' = [up EXCEPT ![f] = "failed"]
  /\ UNCHANGED <<row, key, blob, gcVars, rst, rcVars>>

-----------------------------------------------------------------------------
(* Deletes and time.  `files::delete_file` *)

Delete(f) ==
  /\ row[f] = "live"
  /\ row' = [row EXCEPT ![f] = "trash"]
  /\ UNCHANGED <<key, blob, up, gcVars, rst, rcVars>>

(* deleted_at is the time the transaction began: a delete that began before
   the cutoff of the running collector and commits now is due in this run. *)
DeleteBackdated(f) ==
  /\ "PromptDeletes" \notin env
  /\ gcPhase # "off"
  /\ row[f] = "live"
  /\ row' = [row EXCEPT ![f] = "expired"]
  /\ gcDue' = gcDue \cup {f}
  /\ UNCHANGED <<key, blob, up, gcPhase, gcTodo, gcKey, gcPurged, late, rst, rcVars>>

(* The tombstone passes the cutoff a collector starting now would use. *)
Expire(f) ==
  /\ row[f] = "trash"
  /\ row' = [row EXCEPT ![f] = "expired"]
  /\ UNCHANGED <<key, blob, up, gcVars, rst, rcVars>>

(* The blob's modification time falls behind reconcile's grace period. *)
Age(k) ==
  /\ blob[k] = "fresh"
  /\ "PromptUploads" \in env => ~InFlight(k)
  /\ blob' = [blob EXCEPT ![k] = "old"]
  /\ UNCHANGED <<row, key, up, gcVars, rst, rcVars>>

-----------------------------------------------------------------------------
(* Restores.  `files::restore_file`, one at a time under the GC lock. *)

(* A seeded fault: the restore does not take the advisory lock. *)
RestoreUnlocked(f) ==
  /\ row[f] \in Tombstone /\ rst[f] = "off"
  /\ rst' = [rst EXCEPT ![f] = "stat"]
  /\ UNCHANGED <<row, key, blob, up, gcVars, rcVars>>

RestoreLock(f) ==
  /\ LockFree
  /\ row[f] \in Tombstone
  /\ rst' = [rst EXCEPT ![f] = "stat"]
  /\ UNCHANGED <<row, key, blob, up, gcVars, rcVars>>

(* A seeded fault: the restore trusts the row. *)
RestoreUnstatted(f) ==
  /\ rst[f] = "stat"
  /\ rst' = [rst EXCEPT ![f] = "commit"]
  /\ UNCHANGED <<row, key, blob, up, gcVars, rcVars>>

(* A seeded fault: a session lock, not released when the bytes are gone. *)
RestoreLeaksLock(f) ==
  /\ rst[f] = "stat" /\ blob[key[f]] # "absent"
  /\ rst' = [rst EXCEPT ![f] = "commit"]
  /\ UNCHANGED <<row, key, blob, up, gcVars, rcVars>>

RestoreStat(f) ==
  /\ rst[f] = "stat"
  /\ rst' = [rst EXCEPT ![f] = IF blob[key[f]] = "absent" THEN "off" ELSE "commit"]
  /\ UNCHANGED <<row, key, blob, up, gcVars, rcVars>>

RestoreCommit(f) ==
  /\ rst[f] = "commit"
  /\ row' = [row EXCEPT ![f] = "live"]
  /\ rst' = [rst EXCEPT ![f] = "off"]
  /\ UNCHANGED <<key, blob, up, gcVars, rcVars>>

(* Over quota, an error, or the future dropped: the un-delete rolls back. *)
RestoreAborts(f) ==
  /\ rst[f] # "off"
  /\ rst' = [rst EXCEPT ![f] = "off"]
  /\ UNCHANGED <<row, key, blob, up, gcVars, rcVars>>

-----------------------------------------------------------------------------
(* The collector.  `gc::run_gc`; its row purges are visible at its commit. *)

(* A seeded fault: tombstones are due whatever their age. *)
GcStartEarly(scope) ==
  /\ LockFree
  /\ "QuietGc" \in env => \A f \in Files : ~Adopting(f)
  /\ gcPhase' = "pick"
  /\ gcDue' = {f \in Files : row[f] \in Tombstone /\ Checksum[f] \in scope}
  /\ gcTodo' = {key[f] : f \in gcDue'}
  /\ UNCHANGED <<row, key, blob, up, gcKey, gcPurged, late, rst, rcVars>>

(* pg_try_advisory_xact_lock, then the cutoff and the candidate keys.  An
   administrator may confine the run to one tenant's contents. *)
GcStart(scope) ==
  /\ LockFree
  /\ "QuietGc" \in env => \A f \in Files : ~Adopting(f)
  /\ gcPhase' = "pick"
  /\ gcDue' = {f \in Files : row[f] = "expired" /\ Checksum[f] \in scope}
  /\ gcTodo' = {key[f] : f \in gcDue'}
  /\ UNCHANGED <<row, key, blob, up, gcKey, gcPurged, late, rst, rcVars>>

(* A seeded fault: the live rows are not counted. *)
GcCountNothing(k) ==
  /\ gcPhase = "pick"
  /\ k \in gcTodo
  /\ gcKey' = k
  /\ gcPhase' = "reclaim"
  /\ UNCHANGED <<row, key, blob, up, gcDue, gcTodo, gcPurged, late, rst, rcVars>>

(* Count the live rows of one candidate key. *)
GcCount(k) ==
  /\ gcPhase = "pick"
  /\ k \in gcTodo
  /\ gcKey' = k
  /\ gcPhase' = IF LiveRows(k) = {} THEN "reclaim" ELSE "purge"
  /\ UNCHANGED <<row, key, blob, up, gcDue, gcTodo, gcPurged, late, rst, rcVars>>

(* A seeded fault: the error of the blob delete is ignored. *)
GcReclaimBestEffort ==
  /\ gcPhase = "reclaim"
  /\ TryDeleteBlob(gcKey)
  /\ gcPhase' = "purge"
  /\ UNCHANGED <<row, key, up, gcDue, gcTodo, gcKey, gcPurged, late, rst, rcVars>>

GcReclaim ==
  /\ gcPhase = "reclaim"
  /\ DeleteBlob(gcKey)
  /\ gcPhase' = "purge"
  /\ UNCHANGED <<row, key, up, gcDue, gcTodo, gcKey, gcPurged, late, rst, rcVars>>

(* DELETE the due tombstones of the key, and no other. *)
GcPurge ==
  /\ gcPhase = "purge"
  /\ gcPurged' = gcPurged \cup
       {f \in gcDue : row[f] \in Tombstone /\ key[f] = gcKey}
  /\ gcTodo' = gcTodo \ {gcKey}
  /\ gcKey' = NoKey
  /\ gcPhase' = "pick"
  /\ UNCHANGED <<row, key, blob, up, gcDue, late, rst, rcVars>>

GcStops ==
  /\ gcPhase' = "off"
  /\ gcDue' = {} /\ gcTodo' = {} /\ gcKey' = NoKey /\ gcPurged' = {}
  /\ UNCHANGED <<key, blob, up, rst, rcVars>>

GcCommit ==
  /\ gcPhase = "pick"
  /\ gcTodo = {}
  /\ row' = [f \in Files |-> IF f \in gcPurged THEN "purged" ELSE row[f]]
  /\ GcStops
  /\ UNCHANGED late

(* What a dropped run leaves behind: the store's delete of key k, already under
   way on another thread or at the service, may still happen. *)
Abandon(k) ==
  \/ UNCHANGED late
  \/ "AwaitedDeletes" \notin env /\ late' = late \cup {k}

(* A failed delete, query or commit, a crash, or the client of gc_handler gone:
   the purges roll back, the blobs already deleted stay deleted. *)
GcAborts ==
  /\ gcPhase # "off"
  /\ IF gcPhase = "reclaim" THEN Abandon(gcKey) ELSE UNCHANGED late
  /\ GcStops
  /\ UNCHANGED row

LateDelete(k) ==
  /\ k \in late
  /\ DeleteBlob(k)
  /\ late' = late \ {k}
  /\ UNCHANGED <<row, key, up, gcPhase, gcDue, gcTodo, gcKey, gcPurged, rst, rcVars>>

-----------------------------------------------------------------------------
(* Reconcile.  `gc::run_reconcile`, no lock and no transaction. *)

RcList(s) ==
  /\ rcPhase[s] = "off"
  /\ rcPhase' = [rcPhase EXCEPT ![s] = "listed"]
  /\ rcTodo' = [rcTodo EXCEPT ![s] = {k \in Files : blob[k] # "absent"}]
  /\ UNCHANGED <<row, key, blob, up, gcVars, rst, rcKey>>

(* A seeded fault: no grace period. *)
RcSnapshotNoGrace(s) ==
  /\ rcPhase[s] = "listed"
  /\ rcPhase' = [rcPhase EXCEPT ![s] = "sweep"]
  /\ rcTodo' = [rcTodo EXCEPT ![s] = {k \in @ : ~Referenced(k)}]
  /\ UNCHANGED <<row, key, blob, up, gcVars, rst, rcKey>>

(* The referenced keys are read after the listing; recent blobs are skipped. *)
RcSnapshot(s) ==
  /\ rcPhase[s] = "listed"
  /\ rcPhase' = [rcPhase EXCEPT ![s] = "sweep"]
  /\ rcTodo' = [rcTodo EXCEPT ![s] =
       {k \in @ : ~Referenced(k) /\ blob[k] # "fresh"}]
  /\ UNCHANGED <<row, key, blob, up, gcVars, rst, rcKey>>

(* The per-key re-check right before the delete. *)
RcRecheck(s, k) ==
  /\ rcPhase[s] = "sweep" /\ rcKey[s] = NoKey
  /\ k \in rcTodo[s]
  /\ rcTodo' = [rcTodo EXCEPT ![s] = @ \ {k}]
  /\ rcKey' = [rcKey EXCEPT ![s] = IF Referenced(k) THEN NoKey ELSE k]
  /\ UNCHANGED <<row, key, blob, up, gcVars, rst, rcPhase>>

RcDelete(s) ==
  /\ rcKey[s] # NoKey
  /\ DeleteBlob(rcKey[s])
  /\ rcKey' = [rcKey EXCEPT ![s] = NoKey]
  /\ UNCHANGED <<row, key, up, gcVars, rst, rcPhase, rcTodo>>

(* Done, dry run, failed or dropped. *)
RcStop(s) ==
  /\ rcPhase[s] # "off"
  /\ rcPhase' = [rcPhase EXCEPT ![s] = "off"]
  /\ rcTodo' = [rcTodo EXCEPT ![s] = {}]
  /\ rcKey' = [rcKey EXCEPT ![s] = NoKey]
  /\ IF rcKey[s] # NoKey THEN Abandon(rcKey[s]) ELSE UNCHANGED late
  /\ UNCHANGED <<row, key, blob, up, gcPhase, gcDue, gcTodo, gcKey, gcPurged, rst>>

-----------------------------------------------------------------------------
Upload(f) ==
  \/ StreamBody(f) \/ StreamFails(f)
  \/ FindNoDuplicate(f) \/ FindDuplicate(f) \/ DropStaged(f)
  \/ InsertRow(f) \/ InsertFails(f) \/ InsertUnacknowledged(f)
  \/ Cleanup(f) \/ Cancel(f)

Restore(f) ==
  RestoreLock(f) \/ RestoreStat(f) \/ RestoreCommit(f) \/ RestoreAborts(f)

Collect ==
  \/ \E scope \in SUBSET Contents : GcStart(scope)
  \/ \E k \in Files : GcCount(k) \/ LateDelete(k)
  \/ GcReclaim \/ GcPurge \/ GcCommit \/ GcAborts

Reconcile(s) ==
  \/ RcList(s) \/ RcSnapshot(s)
  \/ \E k \in Files : RcRecheck(s, k)
  \/ RcDelete(s) \/ RcStop(s)

Next ==
  /\ \/ \E f \in Files : \/ Upload(f) \/ Restore(f)
                         \/ Delete(f) \/ DeleteBackdated(f)
                         \/ Expire(f) \/ Age(f)
     \/ Collect
     \/ \E s \in Sweeps : Reconcile(s)
  /\ UNCHANGED env

Spec == Init /\ [][Next]_vars
-----------------------------------------------------------------------------
(* Properties. *)

Quiet == {"QuietGc", "PromptUploads", "ReliableAcks", "AwaitedDeletes"}
Prompt == {"PromptUploads", "AwaitedDeletes"}
OnTime == {"PromptUploads", "ReliableAcks", "PromptDeletes", "AwaitedDeletes"}

(* A live row has its bytes: a download of it never answers 404.  gc::run_gc's *)
(* live count, reconcile's two guards and restore_file's stat exist for this.  *)
RowsHaveBytes == \A f \in Files : row[f] = "live" => blob[key[f]] # "absent"

(* RowsHaveBytes holds across every interleaving of upload, delete, restore,   *)
(* collector and reconcile steps, provided the collector stays out of the      *)
(* window between an upload's dedup query and its insert.                      *)
LiveHasBlob == Quiet \subseteq env => RowsHaveBytes

(* An upload that wrote its bytes and was told so keeps them while its row is  *)
(* live, however collector and uploads overlap, and though the acknowledgement *)
(* of another commit is lost and its handler deletes what it had written.      *)
WriterKeepsBlob ==
  Prompt \subseteq env =>
    \A f \in Files :
      row[f] = "live" /\ key[f] = f /\ up[f] = "done" => blob[f] # "absent"

(* A tombstone inside its retention window can be restored, unless another row *)
(* shares its key: a deduplicated sibling may be collected before it and takes *)
(* the bytes along.                                                            *)
UnsharedTrashHasBytes ==
  Prompt \subseteq env =>
    \A f \in Files :
      /\ row[f] = "trash" /\ key[f] = f /\ up[f] = "done"
      /\ \A g \in Files \ {f} : row[g] # "none" => key[g] # f
      => blob[f] # "absent"

(* The collector leaves no orphan: the bytes of a row that was inserted        *)
(* without finding a duplicate are gone once no row refers to them.            *)
NoOrphanFromGc ==
  OnTime \subseteq env =>
    \A f \in Files :
      row[f] # "none" /\ key[f] = f /\ blob[f] # "absent" => Referenced(f)

(* A client may rely on a file once its upload is acknowledged: where Quiet    *)
(* holds, and where Prompt does if the upload wrote its own bytes.             *)
Promised ==
  {f \in Files :
     /\ up[f] = "done"
     /\ \/ Quiet \subseteq env
        \/ Prompt \subseteq env /\ key[f] = f}
Readable == {f \in Files : HasRow(f) /\ blob[key[f]] # "absent"}

(* The steps implement AtomicFiles: a file that was promised stays readable    *)
(* while it is live, and its bytes go only when it or one that shares them has *)
(* expired; only expired rows are purged, whatever a restore brings back.      *)
Atomically == INSTANCE AtomicFiles WITH promised <- Promised, readable <- Readable
Atomic == Atomically!Spec

(* A restore never resurrects a row whose bytes were reclaimed, though it      *)
(* looks at the store one step before it commits.                              *)
RestoreHasBytes ==
  [][OnTime \subseteq env =>
       \A f \in Files : row[f] \in Tombstone /\ row'[f] = "live"
                         => blob[key[f]] # "absent"]_<<env, row>>

-----------------------------------------------------------------------------
(* Liveness.  The scheduled collector (gc::run_scheduler) tries the lock once  *)
(* per interval and skips that run if it is taken.  So it starts if nobody     *)
(* else has the lock from some time on, and need not if others merely leave it *)
(* free now and then: weak fairness.  The steps of a run under way are taken.  *)
GcFairness ==
  /\ WF_vars(UNCHANGED env /\ GcStart(Contents))
  /\ \A k \in Files : WF_vars(UNCHANGED env /\ GcCount(k))
  /\ WF_vars(UNCHANGED env /\ (GcReclaim \/ GcPurge \/ GcCommit))

(* A restore that holds the lock ends. *)
RestoreFairness ==
  \A f \in Files :
    WF_vars(UNCHANGED env /\ (RestoreStat(f) \/ RestoreCommit(f)))

FairSpec == Spec /\ GcFairness /\ RestoreFairness

(* A restore, or an administrator's run for one tenant, takes the lock. *)
OthersTakeLock ==
  \/ \E f \in Files : RestoreLock(f)
  \/ (\E scope \in SUBSET Contents : GcStart(scope)) /\ ~GcStart(Contents)

(* Nobody keeps the lock: once runs stop failing and no one else takes the     *)
(* lock any more, every expired tombstone is purged or brought back, whatever  *)
(* restores and runs, failed, dropped or under way, came before.               *)
ExpiredIsResolved ==
  <>[][~GcAborts /\ ~OthersTakeLock]_vars =>
    \A f \in Files : row[f] = "expired" ~> row[f] # "expired"
=============================================================================
