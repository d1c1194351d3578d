# ByteHangar: specifications and proofs

ByteHangar is a file storage service: a Rust server (axum, sqlx, PostgreSQL, a blob store on local disk or S3)
and a JavaScript SDK. This directory holds TLA+ models of the parts where its correctness depends on the order
of steps taken by several actors, the TLC configurations that check them on small instances, and TLAPS proofs
that the most important properties hold for every instance. Paths below are relative to the repository;
`files`, `gc` and so on stand for `server/src/files/mod.rs`, `server/src/gc/mod.rs` and so on.

## 1. The system

| Component | State it keeps | Operations | What makes it correct |
|---|---|---|---|
| Files (`files`) | rows of `files`, blobs | upload, download, head, list, delete, restore, share | a live row has its bytes; a tombstone can be restored while it is retained |
| Collector, reconcile (`gc`) | an advisory lock, a transaction | `run_gc`, `run_reconcile`, scheduler, grant pruner | never deletes bytes a row needs; leaves none behind; expired rows go in the end |
| Usage and quota (`usage`) | `usage_counters`, `usage_events` | credit, debit, check, in the file's transaction | counters equal the live rows; no room is given twice |
| Upload grants (`grants`, `auth`) | `upload_grants` | mint, verify, consume, prune | one grant, one file |
| Webhooks (`webhooks`) | `webhook_deliveries` | enqueue, claim, post, record | an outcome is what happened; one worker per row; every event is resolved |
| Tenants and secrets (`tenants`, `secrets`) | secret columns, master keys, API keys | create, set webhook, set quota, rotate | no secret is lost or unreadable; success means rotated |
| Image variants (`files`, `transform`) | `file_variants`, variant blobs, render permits | look up, render, cache, heal, supersede | a variant is served or rendered again; redefined presets leak no blob; sizes are bounded, crops are centred and inside |
| Catalog (`catalog`) | `policies`, `catalog_versions` | register, find | the policies are those of the latest version |
| Blob backends (`blob`) | files or objects | writer, reader, delete, stat, list | a key appears complete or not at all; a writer that is over leaves nothing behind |
| Rate limiter (`rate_limit.rs`) | token buckets | check, evict | a client is admitted as burst and rate allow, no more and no less, but for a burst when its bucket is evicted early; the map is bounded |
| SDK (`sdk/src`) | the upload hook's state | fetch grant, upload, abort | the state shown belongs to the last upload |

**How they interact.** A handler is an axum future. It awaits PostgreSQL, the blob store and, for webhooks,
remote hosts, and may be dropped at any await when its client disconnects. No transaction spans the database
and the blob store: an upload writes bytes and then a row, the collector deletes bytes and then rows.
Handlers, the collector, reconcile, the pruner and the webhook workers of several instances share state only
through PostgreSQL (row locks, one advisory lock, READ COMMITTED statements) and the store. A file transaction
consumes its grant, meters usage and enqueues a webhook. Deduplication makes rows share a storage key and
variants share a blob, so one row's deletion concerns another row's bytes.

**What is hard.** Interleavings between a check and the act it decides (dedup query and insert, live count and
delete, stat and restore, re-check and reconcile, count and reclaim); transactions that roll back after
deletes in the store that cannot; lost acknowledgements; dropped futures; leases that run out; a rolling
deployment of keys; counters under concurrent transactions and a floor that could hide an error.
`PROJECT.json` lists each hazard at its line with the properties that cover it.

## 2. The modules

| Module | Models | Depends on |
|---|---|---|
| `AtomicFiles` | what uploads, deletes, restores, collector and reconcile promise together | |
| `FileStore` | rows and bytes: upload, delete, restore, collector, reconcile | instantiates `AtomicFiles` |
| `FileStoreProofs` | its theorems, the refinement among them | `FileStore` |
| `AtomicLedger` | what file transactions promise together: atomic upload, delete, restore | |
| `Ledger` | those transactions statement by statement, grants, counters, quota | instantiates `AtomicLedger` |
| `LedgerProofs` | its theorems, the refinement among them | `Ledger` |
| `AtomicQueue` | what the delivery queue promises those who enqueue events | |
| `Webhooks`, `WebhooksProofs` | the delivery queue and its theorems | instantiates `AtomicQueue` |
| `Rotation`, `RotationProofs` | secrets under master keys and their rotation, and its theorems | |
| `Variants` | variant requests, presets, the collector's and reconcile's part for variant blobs | |
| `AtomicCatalog` | what overlapping registrations promise together | |
| `Catalog`, `CatalogProofs` | `register_catalog` statement by statement, and its theorems | instantiates `AtomicCatalog` |
| `AtomicBlobs` | what `BlobBackend` and `BlobWriter` promise their callers | |
| `BlobStore`, `BlobStoreProofs` | the drivers `LocalDisk` and `S3` step by step, and their theorems | instantiates `AtomicBlobs` |
| `RateLimiter`, `RateLimiterProofs` | token buckets and their eviction, and its theorems | |
| `Transform` | presets, image limits, crop and scale | |
| `ImageProofs` | the theorems of both | `Variants`, `Transform` |
| `MC*` | constants, symmetry and sums for TLC | the module named |

The models are joined by what they assume of each other. `FileStore` writes a blob in one step because
`BlobStore` implements `AtomicBlobs`; it inserts a row in one step because `Ledger` implements `AtomicLedger`;
`Variants` renders and looks a policy up in one step each, as `Transform` and `Catalog` show the two in
detail.

The operators with comments `A seeded fault` are never part of a specification: each is a plausible bug, and
substituting it for the definition it follows breaks the property it is paired with, which shows that the
property depends on that piece of code.

### FileStore and AtomicFiles

A member of `Files` is one upload attempt, its row and the storage key its bytes are streamed to; `key` is
`files.stored_key`, which dedup may point at another attempt's blob. Each await that separates two effects
separates two actions:

| Code | Actions |
|---|---|
| `files` `stream_field` 331-442 | `StreamBody`, `StreamFails` |
| `files` `upload` 213-228, the dedup query and the drop of the staged copy | `FindNoDuplicate`, `FindDuplicate`, `DropStaged` |
| `files` `upload` 235-316, the transaction and what follows an error | `InsertRow`, `InsertFails`, `InsertUnacknowledged`, `Cleanup` |
| a dropped future | `Cancel` |
| `files` `delete_file` | `Delete`, `DeleteBackdated` (`deleted_at` is the start of the transaction) |
| time | `Expire` (retention ends), `Age` (grace ends) |
| `files` `restore_file`: lock, stat, commit | `RestoreLock`, `RestoreStat`, `RestoreCommit`, `RestoreAborts` |
| `gc` `run_gc` | `GcStart(scope)`, `GcCount`, `GcReclaim`, `GcPurge`, `GcCommit`, `GcAborts`, `LateDelete` |
| `gc` `run_reconcile` | `RcList`, `RcSnapshot`, `RcRecheck`, `RcDelete`, `RcStop` |

What a property needs of the deployment is stated as an assumption, a member of `env` chosen at Init and a
guard on the actions it restricts. A run considers several sets of assumptions at once (`Environments`), and
each property says in which it holds:

- `QuietGc`: no collector runs while an upload that found a duplicate has not inserted its row. The code does
  not guarantee it: the run `gc_race` drops it and violates `RowsHaveBytes`.
- `PromptUploads`: a row is inserted before its blob is older than reconcile's grace period; `grace_seconds`
  is meant to ensure it.
- `ReliableAcks`: a commit that is applied is acknowledged; without it `upload` deletes the bytes of a row
  that exists (`InsertUnacknowledged` then `Cleanup`). `MaxLostAcks` bounds how many acknowledgements are
  lost.
- `PromptDeletes`: a delete does not begin before the cutoff of a collector run that it overlaps; otherwise
  its `deleted_at` is old enough for that run.
- `AwaitedDeletes`: a run that is dropped during `blob.delete` takes that delete with it.

`Quiet` is all but `PromptDeletes`, in which live rows have their bytes (`LiveHasBlob`). `OnTime` is all but
`QuietGc`, in which nothing is orphaned and restores find bytes (`NoOrphanFromGc`, `RestoreHasBytes`).
`LostAcks` is all but `ReliableAcks`: a lost acknowledgement harms its own upload and those that share its
bytes, and no other (`WriterKeepsBlob`, `UnsharedTrashHasBytes`).

`AtomicFiles` is what a client sees of all this: files that are live, in the trash, expired or purged, and
whether they can be read. In it a file that was *promised* is readable from its first step on and while it is
live; its bytes go only for an expired file that shares them (`Reclaim`), and only expired files are purged. A
file is promised when its upload is acknowledged, where `Quiet` holds; where only `Prompt` does (neither
`QuietGc` nor `ReliableAcks`), if the upload also wrote its own bytes; and nowhere else. `Atomic` says that
`FileStore` implements it.

### Ledger and AtomicLedger

A transaction is `op`, `on`, `at` of a connection. A statement is an action; which locks a transaction holds
follows from how far it is, and a statement that needs a lock another holds is not enabled. What it wrote is
seen at its commit. `MintGrant` opens a grant, at any time before its upload. The order is the code's: an
upload loads the tenant's quota, consumes the grant, locks the usage row and checks the quota, meters and
commits; a restore takes the advisory lock first. The pruner, the expiry of grants, `set_quota` and the purge
are actions of the environment. `AtomicLedger` has one action per operation and exact counters without a
floor; `Atomic` says that `Ledger` implements it.

### Webhooks and AtomicQueue

`Enqueue` is the insert in a file's transaction, `Claim` the `UPDATE ... FOR UPDATE SKIP LOCKED` with its
lease and count of attempts, `Post` the request and its answer (lost answers and the SSRF guard included),
`Record` each recording statement, which checks no status and whose error is ignored, `Crash` the loss of an
instance, `Elapse` the passing of `next_attempt_at`. `LeaseOutlasts` says whether a lease outlasts a batch;
`CLAIM_LEASE_SECS` is 60 s against a timeout of 5 s per post and a batch of 20, which is ample but not
enforced. Both values are checked and the properties that need it say so. A worker holds at most a batch of
rows (`Held`). `attempts` counts claims, as in the code: a crashed one uses up a retry, and
`FailedIsJustified` says no more. After a lease ran out an outcome may be replaced by another that is as true
(`Atomic`, `DeliveredWasReceived` and `FailedIsJustified` hold then too); that it is not replaced is claimed
only while leases outlast batches. `AtomicQueue` has no workers, attempts or due times: an event is taken,
processed or refused, resolved with a true outcome, or released; a strict queue, one whose leases outlast
batches, takes and resolves an event only while it is pending and with nobody else. Why an event is hopeless
is left to the mapping: `Hopeless` holds the rows refused or at `MAX_ATTEMPTS`.

### Rotation

A stored value is a secret and the key it is under (key 0: clear text). Processes carry `MASTER_KEY` and
`MASTER_KEY_PREVIOUS`; the operator chooses a target and restarts them one at a time. An event is loaded with
its tenant in the extractors of a request (`LoadTenant`, which decrypts the webhook's secret), then encrypted
again and queued in the transaction at its end (`Enqueue`); any `set_webhook`, rotation or restart may come in
between. `EndEvent` is a request that fails or a delivery that is over. `EventsAreSigned` compares what a
delivery is signed with to the secret of its own tenant when the request began, and excepts what the code does
not ensure: requests of a process not restarted yet (`fresh`) and deliveries under a dropped key (`Dropped`).
`RotateStart`, `RotateRead`, `RotateWrite`, `CannotRotate`, `RotateEnd` and `RotateAborts` are
`rotate_secrets`, which takes one tenant at a time under its row lock. The operator follows the documented
procedure and nothing more: a key is dropped (`DropPrevious`) once a rotation has succeeded, whatever is
queued.

### Variants

`at` follows a request through `serve_variant` and `render_and_cache`: find the policy, find the row, wait for
a permit, read the original, render on the blocking pool (`running`), read the row that will be superseded,
write the blob, upsert the row, count the rows of the superseded blob, delete it, open the blob, heal once.
`Drop` is a client that leaves. The collector's part for variants is `GcCollect`, `GcPurge`, `GcCount`,
`GcReclaim`, `GcCommit`; its transaction sees its own deletes (`References(b) \ gc`), others do not.
Assumptions: `QuietCatalog` (a preset is redefined between requests), `PromptUpserts` (no collector run starts
between a variant's blob and its row), `LoneCleaner` (collector and reconcile do not overlap). Each came from
a behaviour in which a blob is taken away a second time, after healing, and the request ends in a 404. `left`
holds the blobs that were given up without a row, by a request that `Owes` them one or a look at their rows
(`GiveUp`): it was dropped or failed between its writes, its file was purged under it, its count failed (which
the code takes for a count of 1), the error of its delete was ignored, or it counted rows which a collector
was about to commit as deleted while the collector counted its own; or by a collector, when the row came
between its list and its purge. A blob that gets a row again is no longer in `left`. A delete that is under
way ends with the request or run that asked for it. Restores are left out here (`FileStore` has them).

### Catalog and AtomicCatalog

A call reads the latest version and hash outside its transaction (`ReadLatest`), then deletes the tenant's
policies (`DeleteBegins`, `DeleteOld`: the rows are those committed when the statement began, less what was
deleted while it waited for their locks), inserts its own one by one (`InsertPolicy`, in the order of the
sorted keys), inserts the version (`InsertVersion`) and commits. An insert waits for a transaction that holds
its unique key and fails if the key is committed. A row has an `id`, as in the table, because DELETE tells a
row from an earlier row for the same policy; ids are numbered by the version of the call that inserts.
`TypeOK` includes `UNIQUE (tenant_id, key)`. `Hash` need not be injective: the small instance has two catalogs
with one hash.

### BlobStore and AtomicBlobs

A writer opens (`Open`, `OpenFails`), takes chunks (`WriteFile`; `BufferChunk`, `PartUploaded`, `PartFails`),
commits (`FlushFile`, `CommitParts`, then `Publish` and `Answer`) or aborts. What was asked of the blocking
pool or of S3 is in `asked` and takes effect with or without the caller, so a rename or a completion may
follow a dropped future or a lost answer. `stream_field` aborts its writer on each error and
`render_and_cache` does not (`Renders`). `PowerLoss` may undo renames and removals of a local disk, whose
directories are not synced (`past`), loses the bytes `sync_all` did not put on disk (`volatile`), and may lose
or bring back any temporary file there ever was (`temps`), those of writers that succeeded or aborted included
(`undone`); no code removes these, and `NothingLeftBehind` excepts them. `commit` ignores the error of
`sync_all` (`blob` 203), so the runs and theorems assume `Syncs = {TRUE}`; with `FALSE` in it a power loss
leaves an empty object under the key. `AtomicBlobs` has objects that appear whole, in one step, after a commit
and before its success is reported, and that an aborted writer never makes appear. `Atomic` says that both
drivers implement it.

### RateLimiter

`Arrive` is the middleware, which reads the clock before it takes the mutex; `Check` is `check` with `evict`,
and sees the times of overlapping requests in any order. Tokens are counted in parts so that a tick refills a
whole number of them; the rounding of `f64` is not modelled. `log`, `behind`, `trims` and `evicted` are
history: the admissions of a client, by how much the clock of its bucket was set back, how often it got a
fresh bucket before the last one would have been full again (`Returning`), and the last bucket of each client
that `evict` removed. `Metered` says, of every client ever seen, that the two numbers the code keeps hold what
the full history leaves: the least, over all earlier admissions, of burst plus rate times the time credited
since, plus a burst for each such fresh bucket since, less the admissions since. The code stores a time that
lies before the last one, so the time in between is credited twice; `Metered` counts it so.

### Transform

`Register` is `Preset::validate`; `BeginRender`, `ReadHeader`, `Decode`, `ApplyFit`, `Encode` and `Refuse` are
`render`. `Size` is the size `apply_fit` asks for, with `resize` of the image crate (`Within`, external) for a
preset with a free side; `Crop` is `cover`. `RenderTypeOK` bounds each rendering by `MAX_OUTPUT_DIM`;
`CoverIsSound` says that a crop is inside the image, centred to a pixel, less than a pixel from the preset's
aspect, and that scaling it, whichever axis goes first, allocates no more than the input or the output.

## 3. The runs

| Run | Instance | States | Checks |
|---|---|---|---|
| `files_safety` | 3 uploads of the same bytes, 1 reconcile, the environments `Quiet` and `OnTime`, and `LostAcks` without the reconcile | 1,156,000 | `TypeOK`, `LiveHasBlob`, `WriterKeepsBlob`, `UnsharedTrashHasBytes`, `NoOrphanFromGc`, `RestoreHasBytes`, `Atomic` |
| `files_liveness` | 2 uploads, no assumption, 2 lost acknowledgements | 55,000 | `ExpiredIsResolved` |
| `ledger` | 2 connections, 3 uploads, two on one grant, quota 2 or none | 86,000 | `TypeOK`, `NonceSingleUse`, `CountersExact`, `QuotaReserved`, `TransactionsEnd`, `Atomic` |
| `webhooks` | 2 rows, 2 workers, 2 attempts, with and without `LeaseOutlasts` | 51,000 | `TypeOK`, `DeliveredWasReceived`, `FailedIsJustified`, `OneWorkerPerRow`, `Atomic`, `EventsResolve` |
| `rotation` | 2 processes, 2 tenants, 3 keys and none, an empty and a real secret, one event at a time | 334,000 | `TypeOK`, `TenantSecretsReadable`, `SuccessMeansRotated`, `SecretsAreKept`, `EventsAreSigned` |
| `catalog` | 3 calls, 4 catalogs over 2 keys, 2 of them with one hash | 57,000 | `TypeOK`, `PoliciesAreLatest`, `OnlyOvertakenDeadlock`, `Atomic` |
| `variants` | 2 requests, 2 files with the same bytes, 2 presets, 1 permit | 444,000 | `TypeOK`, `HealSuffices`, `NothingLeaks` |
| `blobs` | both drivers, 2 renderings of one variant of 2 chunks, an upload of 3 chunks, parts of 2 | 32,000 | `TypeOK`, `NothingLeftBehind`, `Atomic` |
| `rate_limit` | 4 clients, 2 overlapping requests, a map of 2 buckets, burst 2, half a token per tick | 1,257,000 | `TypeOK`, `Metered` |
| `transform` | images of up to 16 pixels a side, of which 15 and 180 in all are accepted, renderings of up to 7 | 185,000 | `RenderTypeOK`, `CoverIsSound` |

Why the bounds are enough. In `files_safety` one upload writes the bytes, another adopts them and a third may
do either while the first is deleted: every role of the code is taken, and a role is never taken twice at one
key, since a delete in the store is idempotent. One acknowledgement is lost, and without a reconcile call
(`SweepsOrLosses`): the theorem has any number of both. Two connections are what a lock conflict needs, three
uploads what a replay and an innocent third need; the theorems lift the number. Two attempts are the first
number with a retry; the code's six add nothing but repetitions of it, as only the last attempt is treated
differently. Two keys are what a rotation involves at any time; three give two rotations, after which a key
has been dropped. Two files with the same bytes, two requests and two presets give a blob that is superseded
by one file and used by the other. Three calls are a call that overtakes, one that is overtaken and one more,
with catalogs that share a key, a policy, or nothing; no call begins after version 2 (`MaxVersion`), so up to
four versions exist. Objects of 2 and 3 chunks with parts of 2 make S3's last part full or short; two writers
of one key are what a rendering that overlaps another needs. Four ticks (`MaxClock`) are what a bucket needs
to refill and to become idle, and with a map of 2 four clients make `evict` trim; the constraint `Short` stops
after 5 admissions, those of evicted clients included, which is enough for a client whose bucket was trimmed
to come back to a fresh one. `transform` has each limit with values on both sides and images of side 0;
`ImageProofs` lifts the sizes. Symmetry is used only in runs without liveness properties. Deadlock checking is
off only where the system may stop: all rows purged (`FileStore`, `VariantsRenderBound.cfg`), all events
resolved (`Webhooks`), no call begun any more (`Catalog`), all writers over (`BlobStore`), the clock at its
bound (`RateLimiter`).

**Fairness.** `FileStore`: the scheduled collector starts again after each interval and takes its steps,
restores that hold the lock end. The start is weakly fair: `run_gc` tries the lock once per interval and skips
the run if it is taken, so restores that hold it at each of these moments can postpone collection for ever. No
fairness is asked of aborts, crashes, uploads or deletes, and the property assumes that from some time on runs
stop failing and nobody else takes the lock: it shows that no restore and no run, whatever happened to it,
keeps the lock or leaves a tombstone in a state that no later run resolves. `Ledger`: PostgreSQL queues lock
waiters, so statements are strongly fair; nothing makes a transaction abort or keeps it from doing so.
`Webhooks`: a worker polls every second and takes the longest due rows first; posts have a timeout; the
property assumes that crashes stop.

### Where the code and its documentation disagree

Each of these is a run that TLC ends with a counterexample.

| Run | Property | What happens |
|---|---|---|
| `gc_race` | `RowsHaveBytes` | an upload finds a duplicate, its row is deleted and collected, the upload commits a live row without bytes. `gc` 3-6 calls the collector "race-free" and "dedup-safe" |
| `render_bound` | `RendersBounded` | a client that leaves during a render returns the permit while `spawn_blocking` goes on. `files` 692 |

Met while modelling, with no run of their own:

- A collector's client leaves during a delete in the store; the lock is released, a restore finds the bytes
  and commits, and the delete completes (`files` 1013-1014 says that the lock prevents it; the assumption
  `AwaitedDeletes`).
- The blob of an expired tombstone is deleted although a younger tombstone shares it, which can then not be
  restored (`gc` 140-142, `docs/OPERATIONS.md` 61-63); `UnsharedTrashHasBytes` is what remains true.
- `rotate_secrets` does not touch `webhook_deliveries.secret_enc`; when the previous key is dropped as
  documented, queued deliveries are signed with an empty secret (`tenants` 457-458, `webhooks` 38-39; the
  exception `Dropped` of `EventsAreSigned`).
- A name that does not resolve at the moment is treated like a blocked target, and the event fails for good at
  its first attempt (`webhooks` 142-147, `ssrf` 27-29).
- An upload slower than the grace period whose row commits between reconcile's re-check and its delete loses
  its bytes, although `gc` 263-264 says that the re-check "closes the TOCTOU independent of the grace window"
  (`PromptUploads`).
- Two instances that register the same first catalog at boot race for version 1 and one gets an error, though
  `catalog` 2 calls registration idempotent; an overtaken call may deadlock with a current one, of which
  PostgreSQL aborts either.
- `set_webhook` with an empty `secret` makes every later `rotate_secrets` fail for that tenant, since
  `reencrypt` gives up on an empty plaintext (the value `Empty` of `Rotation`).
- A process without the new key reads values under it as empty during a rolling deployment, and queues their
  events with an empty secret (the exception `fresh` of `EventsAreSigned`).
- `catalog_hash` joins content types with commas unescaped, so `["a,b"]` and `["a","b"]` hash alike (the
  instance of `Catalog` has such a pair).
- The error of `sync_all` is ignored and directories are not synced (`blob` 203-205): after a power loss a
  committed object may be missing, or empty if the sync failed.
- `rate_limit.rs` 62 calls its map hard-bounded; it holds one bucket more than `MAX_TRACKED_IPS` before it is
  trimmed. A bucket that is evicted before it has refilled gives its client a fresh burst at the next request.
  A request that is overtaken between the clock and the mutex has the time in between credited twice.

## 4. The theorems

All are for every value of the constants that satisfies the named assumptions.

- **FileStoreProofs.** `TypeCorrect`; `LiveRowsHaveBytes` (`[]LiveHasBlob`); `WritersKeepBytes`
  (`[]WriterKeepsBlob`) and `TrashKeepsBytes` (`[]UnsharedTrashHasBytes`); `NothingIsOrphaned`
  (`[]NoOrphanFromGc`); `RestoresFindBytes` (`RestoreHasBytes`); `FilesAreAtomic` (`Atomic`). `LiveHasBlob` is
  not inductive: it says nothing of a key that is about to be adopted, counted, restored or swept. `IInv` adds
  one conjunct per activity: a pending upload has no row, a collector excludes restores (`LockInv`); an
  adopted key keeps its bytes and a row (`AdoptInv`); the key being reclaimed has no live row (`GcInv`); a
  restore past its stat has bytes (`RestoreInv`); reconcile considers only keys past their upload, and deletes
  only keys nothing needs (`RcInv`). `OwnInv` is the weaker invariant for `WritersKeepBytes` and
  `TrashKeepsBytes`, without `QuietGc` and with lost acknowledgements. `OrphanInv`, under `OnTime`, follows
  the keys of a collector from its list to its purge, and says that a key whose rows are all gone has no
  bytes. The refinement needs `IInv` and `OwnInv` and what is true in every environment (`RunInv`): the rows
  of a run are and stay expired, each key on its list has one, and no row has a key that is yet to be written,
  so nothing becomes readable but what is stored.
- **LedgerProofs.** `GrantsAreSingleUse`, `CountersAreExact`, `QuotaIsReserved` and `TransactionsAreAtomic`.
  The invariant says which rows and locks a transaction at each statement has (`PhaseInv`, `FoundInv`), that
  no lock has two holders (`Exclusive`), and that an open grant has no row (`GrantInv`). Exact counters and
  the refinement go together: a commit is an atomic step because the counters are exact, and they stay exact
  because steps are atomic. The sum of sizes is a constant `Total` characterised by `TotalAssumption`, which
  TLC evaluates with a fold for `Total`.
- **WebhooksProofs.** `DeliveredMeansReceived`, `FailuresAreJustified`, `LeasesExclude`, `OutcomesAreFinal`,
  `QueueIsAtomic` (the refinement). A row a worker holds was enqueued, and what the worker knows of it is true
  (`JobInv`); while leases outlast batches it is pending and not due (`LeaseInv`), so no other worker can
  claim it. That a worker holds a batch at most needs finitely many `Deliveries`. A record is a `Resolve`
  because of both; a crash releases all a worker holds at once, unless another worker holds it too.
- **RotationProofs.** `SecretsStayReadable`, `SuccessIsTrue`, `SecretsSurvive`, `EventsCarryTheirSecret`
  (`[]EventsAreSigned`). `CallInv` says that what a call has read is what the row still holds, by the row
  lock; `DoneInv` that the tenants a call is through with are under the current key, which no other process
  undoes once the target is deployed; `EventInv` what a loaded event carries, and which
  keys a queued one can be under, whichever process it came from.
- **CatalogProofs.** `TypeCorrect` (unique keys included), `LatestIsInForce`, `OvertakenDeadlocks`,
  `RegistrationIsAtomic`. The invariant says that the primary key of `catalog_versions` lets one call at a
  time reach its commit, and only one that nobody has overtaken since its read (`CommitInv`), and that such a
  call's DELETE has seen all the policies there are (`CurrentInv`). For deadlock, no key is inserted after a
  greater one (`LockInv`): in a set of calls that all wait within the set, and can all still succeed, each
  would wait for one that waits at a greater key, which finitely many calls cannot do (`NoCycle`, by
  well-foundedness of strict inclusion).
- **BlobStoreProofs.** `BlobsWhole` (an object is whole), `TypeCorrect`, `NothingIsLeft`, `BlobsAtomic` (the
  refinement), under `DiskSyncs`: `sync_all` succeeds. The invariant says that what a writer has staged and
  buffered are the chunks it was given, in order (`WriterInv`), and that a key holds, and can hold after a
  power loss, the whole object or none (`KeyInv`). A step of a driver is one step of `AtomicBlobs` or none; a
  crash cuts off every writer at once. `NothingIsLeft` excepts the writers whose file a power loss gave back.
- **RateLimiterProofs.** `LimiterCorrect`, `TypeCorrect`, `BucketsMeter`. `Metered` is inductive as it stands
  with the finiteness of the map: eviction moves a bucket to `evicted`, a return adds a burst to each term or
  finds that the bucket would be full; a refill adds to each term what it adds to the bucket, the cap adds the
  term `Full`, and an admission adds a term no less than the others. The bound on the map is a count of what
  `evict` leaves.
- **ImageProofs**, of `Variants`: `VariantsTypeCorrect`, `NothingIsLeaked`, `OneRenderingHeals`.
  `NothingIsLeaked` needs `QuietCatalog` only, of the three assumptions of the run. Its invariant `LeakInv`
  says that every blob not in `left` has a row, or a request that owes it one or still has to look at its rows
  (`Owes`); while the collector has rows purged but not committed, that holds a second time of the table as
  the collector sees it, or the blob is on its list: if the two views were one, an abort would be a hole in
  the proof. `PriorInv` says that a request replaces the row it has read, or one of its own preset.
  `OneRenderingHeals` needs all three. `RowInv` says that a request has its row from its first rendering on;
  whoever is about to delete a blob has found it without rows, so a blob that has got one again is in the
  store (`DoomedInv`), also if the row is still to come (`WrittenInv`), and no request deletes a blob of the
  current preset (`ReclaimInv`). `HealInv` puts these together for a request that renders again.
- **ImageProofs**, of `Transform`: `RenderTypeCorrect` (the bound on renderings included), `CropsAreSound`.
  The lemmas are facts of integer division: rounding, the clamped crop and the halved margins; the invariant
  is that the crop and the size are those of the image and preset at hand.

Only model-checked: the liveness properties (`ExpiredIsResolved`, `TransactionsEnd`, `EventsResolve`). They
depend on fairness, and with it on which steps are enabled, about which the prover cannot reason. Every other
property of a run that passes is a theorem.

## 5. Not modelled, and why

- HTTP routing, metrics, audit log, error mapping, configuration: glue that no property refers to. Of start
  and shutdown the models have what other parts feel: a process starts with the master keys it is given
  (`Rotation`), and an instance that stops leaves its deliveries (`Webhooks`, `Crash`), its collector run
  (`FileStore`, `GcAborts`) and its writers (`BlobStore`, `Crash`). A graceful stop, which lets a batch of
  deliveries end, is a `Crash` of an idle worker.
- Signatures, hashes and encryption themselves, and the SSRF guard's address rules: pure functions over
  strings and addresses; the models use their results.
- API keys, the download callback URL, listing: single statements.
- The contents of images and files; formats and quality of renderings. `usage_events`: appended, never read by
  the server's decisions.
- The rate limiter's rounding of `f64`, and `per_second = 0`, which lets everything pass. Which header names
  the client.
- The SDK: its requests are the server's inputs, which the models choose freely. The state of the React upload
  hook belongs to one component of a browser page and nothing here depends on it.
- READ COMMITTED and row locks are modelled as PostgreSQL documents them, S3 and the file system as the
  drivers use them.

## 6. Plan

Done: every module of section 2, with proofs. Next, in this order:

1. Liveness of variant requests (a permit is given back before healing takes another).
2. `Webhooks` with a graceful stop that is told from a crash; API keys in `Rotation`.
3. `UploadHook`: React's overlapping `upload` and `reset` calls, and aborts.
