------------------------------ MODULE Variants ------------------------------
(***************************************************************************)
(* Image variants: requests that look up, render, cache, serve and heal    *)
(* them, while presets are redefined, files are deleted and collected, and *)
(* reconcile runs.  A variant's blob is keyed by the original's stored_key *)
(* and the preset, so files with the same bytes share it.                  *)
(***************************************************************************)
EXTENDS Naturals, FiniteSets

CONSTANTS
  Requests, Files, Keys,
  Key,       \* the stored_key of each file, shared after dedup
  Specs,     \* contents a preset may have (its cache_signature)
  NoSpec, NoFile, NoBlob,
  Permits,   \* IMAGE_RENDER_CONCURRENCY
  Assumed    \* assumptions on timing, see Redefine and GcCollect

ASSUME KeyAssumption == Key \in [Files -> Keys]
ASSUME PermitsAssumption == Permits \in Nat \ {0}
ASSUME NoneAssumption == NoSpec \notin Specs /\ NoFile \notin Files /\ NoBlob \notin Keys \X Specs
ASSUME AssumedAssumption == Assumed \subseteq {"QuietCatalog", "PromptUpserts", "LoneCleaner"}

VARIABLES
  preset,    \* the preset in the policy the files belong to
  file,      \* the row of each file
  original,  \* stored_keys whose blob is in the store
  row,       \* the preset of each file's row in file_variants
  blobs,     \* variant blobs in the store
  at, of, want, prior, healing,   \* each request
  running,   \* requests whose render occupies the blocking pool
  left,      \* history: the blobs given up without a row, see GiveUp and GcPurge
  gcAt, gc,  \* how far the collector is, and the tombstones it purges
  gcVariants,\* the variant blobs of those files that it has yet to look at
  gcBlob, rcBlob   \* the blob the collector, and reconcile, are about to delete

store == <<row, blobs>>
request == <<at, of, want, prior, healing>>
others == <<preset, file, original>>
collector == <<gcAt, gc, gcVariants, gcBlob, rcBlob>>
vars == <<store, request, others, collector, running, left>>

Blobs == Keys \X Specs
Rendering == {"read", "render", "write", "upsert", "count", "reclaim"}

TypeOK ==
  /\ preset \in Specs
  /\ file \in [Files -> {"live", "trash", "purged"}]
  /\ original \subseteq Keys
  /\ row \in [Files -> Specs \cup {NoSpec}]
  /\ blobs \subseteq Blobs
  /\ at \in [Requests -> {"idle", "found", "lookup", "acquire", "open", "missing"} \cup Rendering]
  /\ of \in [Requests -> Files \cup {NoFile}]
  /\ want \in [Requests -> Specs \cup {NoSpec}]
  /\ prior \in [Requests -> Specs \cup {NoSpec}]
  /\ healing \in [Requests -> BOOLEAN]
  /\ running \subseteq Requests
  /\ left \subseteq Blobs
  /\ gcAt \in {"idle", "collected", "purged"}
  /\ gc \subseteq Files
  /\ gcVariants \subseteq Blobs
  /\ gcBlob \in Blobs \cup {NoBlob}
  /\ rcBlob \in Blobs \cup {NoBlob}

Init ==
  /\ preset \in Specs
  /\ file = [f \in Files |-> "live"]
  /\ original = {Key[f] : f \in Files}
  /\ row = [f \in Files |-> NoSpec]
  /\ blobs = {}
  /\ at = [r \in Requests |-> "idle"]
  /\ of = [r \in Requests |-> NoFile]
  /\ want = [r \in Requests |-> NoSpec]
  /\ prior = [r \in Requests |-> NoSpec]
  /\ healing = [r \in Requests |-> FALSE]
  /\ running = {} /\ left = {}
  /\ gcAt = "idle" /\ gc = {} /\ gcVariants = {} /\ gcBlob = NoBlob /\ rcBlob = NoBlob

-----------------------------------------------------------------------------
(* file_variants as others see it: what the collector deletes stays until it   *)
(* commits.                                                                    *)
References(b) == {f \in Files : row[f] # NoSpec /\ <<Key[f], row[f]>> = b}

(* A seeded fault: a key that leaves the preset out. *)
WantedOfAnyPreset(r) == <<Key[of[r]]>>

(* The blob a request asks for, and the one its render may supersede. *)
Wanted(r) == <<Key[of[r]], want[r]>>
Superseded(r) == <<Key[of[r]], prior[r]>>

Supersedes(r) == prior[r] \notin {NoSpec, want[r]}

(* What request r has yet to see to: the blob it has written and will make the
   row of, then the one it has superseded and whose rows it will look at. *)
Owes(r, b) ==
  \/ at[r] = "upsert" /\ b = Wanted(r)
  \/ at[r] \in {"count", "reclaim"} /\ Supersedes(r) /\ b = Superseded(r)

(* No file has a row for b, but those whose purge is about to be committed. *)
Untended(b) == References(b) \subseteq IF gcAt = "purged" THEN gc ELSE {}

(* The request does not see to it, be it that it ends here or goes on. *)
GiveUp(r) == left' = left \cup {b \in Blobs : Owes(r, b) /\ Untended(b)}

Goto(r, step) == at' = [at EXCEPT ![r] = step]

(* The end of a request. *)
Leave(r) ==
  /\ Goto(r, "idle")
  /\ of' = [of EXCEPT ![r] = NoFile]
  /\ want' = [want EXCEPT ![r] = NoSpec]
  /\ prior' = [prior EXCEPT ![r] = NoSpec]
  /\ healing' = [healing EXCEPT ![r] = FALSE]

-----------------------------------------------------------------------------
(* `download` finds a live file and may wait for the tenant's callback. *)
Begin(r, f) ==
  /\ at[r] = "idle" /\ r \notin running
  /\ file[f] = "live"
  /\ Goto(r, "found")
  /\ of' = [of EXCEPT ![r] = f]
  /\ UNCHANGED <<want, prior, healing, store, others, collector, running, left>>

(* `serve_variant` finds the policy, then the row. *)
FindPolicy(r) ==
  /\ at[r] = "found"
  /\ Goto(r, "lookup")
  /\ want' = [want EXCEPT ![r] = preset]
  /\ UNCHANGED <<of, prior, healing, store, others, collector, running, left>>

(* A row made from another preset counts as none. *)
Lookup(r) ==
  /\ at[r] = "lookup"
  /\ Goto(r, IF row[of[r]] = want[r] THEN "open" ELSE "acquire")
  /\ UNCHANGED <<of, want, prior, healing, store, others, collector, running, left>>

(* `render_and_cache`.  A permit is held until it returns or is dropped.       *)
Permitted == {r \in Requests : at[r] \in Rendering}

Acquire(r) ==
  /\ at[r] = "acquire"
  /\ Cardinality(Permitted) < Permits
  /\ Goto(r, "read")
  /\ UNCHANGED <<of, want, prior, healing, store, others, collector, running, left>>

ReadOriginal(r) ==
  /\ at[r] = "read"
  /\ \/ /\ Key[of[r]] \in original
        /\ Goto(r, "render")
        /\ running' = running \cup {r}
        /\ UNCHANGED <<of, want, prior, healing>>
     \/ /\ Key[of[r]] \notin original
        /\ Leave(r)
        /\ UNCHANGED running
  /\ UNCHANGED <<store, others, collector, left>>

(* spawn_blocking returns, and the row is read for the blob it will supersede. *)
FindPrior(r) ==
  /\ at[r] = "render"
  /\ running' = running \ {r}
  /\ prior' = [prior EXCEPT ![r] = row[of[r]]]
  /\ Goto(r, "write")
  /\ UNCHANGED <<of, want, healing, store, others, collector, left>>

WriteBlob(r) ==
  /\ at[r] = "write"
  /\ blobs' = blobs \cup {Wanted(r)}
  /\ Goto(r, "upsert")
  /\ UNCHANGED <<of, want, prior, healing, row, others, collector, running, left>>

(* A seeded fault: ON CONFLICT DO NOTHING. *)
UpsertKeepsOld(r) ==
  /\ at[r] = "upsert"
  /\ ~(gcAt = "purged" /\ of[r] \in gc)
  /\ file[of[r]] # "purged"
  /\ row' = [row EXCEPT ![of[r]] = IF @ = NoSpec THEN want[r] ELSE @]
  /\ Goto(r, "count")
  /\ UNCHANGED <<of, want, prior, healing, blobs, others, collector, running, left>>

(* INSERT ... ON CONFLICT DO UPDATE.  The file's row must exist and is waited
   for while the collector's transaction has deleted it. *)
Upsert(r) ==
  /\ at[r] = "upsert"
  /\ ~(gcAt = "purged" /\ of[r] \in gc)
  /\ \/ /\ file[of[r]] # "purged"
        /\ row' = [row EXCEPT ![of[r]] = want[r]]
        /\ left' = left \ {Wanted(r)}
        /\ Goto(r, "count")
        /\ UNCHANGED <<of, want, prior, healing>>
     \/ /\ file[of[r]] = "purged"
        /\ GiveUp(r)
        /\ Leave(r)
        /\ UNCHANGED row
  /\ UNCHANGED <<blobs, others, collector, running>>

(* `render_and_cache` returns to where it was called. *)
Rendered(r) == Goto(r, "open")

(* The rows of a superseded blob are counted; a count that fails passes for 1,
   and the request goes on. *)
CountPrior(r) ==
  /\ at[r] = "count"
  /\ \/ /\ Supersedes(r) /\ References(Superseded(r)) = {}
        /\ Goto(r, "reclaim")
        /\ UNCHANGED left
     \/ /\ Rendered(r)
        /\ GiveUp(r)
  /\ UNCHANGED <<of, want, prior, healing, store, others, collector, running>>

(* The error of the delete is ignored. *)
ReclaimPrior(r) ==
  /\ at[r] = "reclaim"
  /\ \/ /\ blobs' = blobs \ {Superseded(r)}
        /\ UNCHANGED left
     \/ /\ GiveUp(r)
        /\ UNCHANGED blobs
  /\ Rendered(r)
  /\ UNCHANGED <<of, want, prior, healing, row, others, collector, running>>

(* The blob is served, or the first time If-None-Match answered with 304, or it
   is gone and rendered once more. *)
Open(r) ==
  /\ at[r] = "open"
  /\ \/ /\ Wanted(r) \in blobs \/ ~healing[r]
        /\ Leave(r)
     \/ /\ Wanted(r) \notin blobs /\ ~healing[r]
        /\ healing' = [healing EXCEPT ![r] = TRUE]
        /\ Goto(r, "acquire")
        /\ UNCHANGED <<of, want, prior>>
     \/ /\ Wanted(r) \notin blobs /\ healing[r]
        /\ Goto(r, "missing")
        /\ UNCHANGED <<of, want, prior, healing>>
  /\ UNCHANGED <<store, others, collector, running, left>>

(* A 404 after healing. *)
Fail(r) ==
  /\ at[r] = "missing"
  /\ Leave(r)
  /\ UNCHANGED <<store, others, collector, running, left>>

(* The client disconnects or an await fails.  The permit goes back with the
   future; a render on the blocking pool goes on, and so may the write of a blob
   that was to be committed. *)
Drop(r) ==
  /\ at[r] # "idle"
  /\ \/ /\ GiveUp(r)
        /\ UNCHANGED blobs
     \/ /\ at[r] = "write"
        /\ blobs' = blobs \cup {Wanted(r)}
        /\ left' = left \cup {b \in {Wanted(r)} : Untended(b)}
  /\ Leave(r)
  /\ UNCHANGED <<row, others, collector, running>>

RenderEnds(r) ==
  /\ at[r] = "idle" /\ r \in running
  /\ running' = running \ {r}
  /\ UNCHANGED <<store, request, others, collector, left>>

-----------------------------------------------------------------------------
(* The rest of the system.                                                     *)

(* `register_catalog`.  QuietCatalog: no request is under way. *)
Redefine(spec) ==
  /\ spec # preset
  /\ "QuietCatalog" \in Assumed => \A r \in Requests : at[r] = "idle"
  /\ preset' = spec
  /\ UNCHANGED <<file, original, store, request, collector, running, left>>

Delete(f) ==
  /\ file[f] = "live"
  /\ file' = [file EXCEPT ![f] = "trash"]
  /\ UNCHANGED <<preset, original, store, request, collector, running, left>>

(* `run_gc_inner` for one stored_key and the tombstones past the cutoff: the
   original goes if no live file has it, and their variants are listed.
   PromptUpserts: no run starts while a blob awaits its row.
   LoneCleaner: the collector and reconcile do not run at the same time. *)
GcCollect(k, expired) ==
  /\ gcAt = "idle" /\ expired # {}
  /\ "PromptUpserts" \in Assumed => \A r \in Requests : at[r] # "upsert"
  /\ "LoneCleaner" \in Assumed => rcBlob = NoBlob
  /\ \A f \in expired : Key[f] = k /\ file[f] = "trash"
  /\ original' = IF \E f \in Files : Key[f] = k /\ file[f] = "live"
                 THEN original ELSE original \ {k}
  /\ gcAt' = "collected" /\ gc' = expired
  /\ gcVariants' = {<<k, row[f]>> : f \in {g \in expired : row[g] # NoSpec}}
  /\ UNCHANGED <<preset, file, store, request, gcBlob, rcBlob, running, left>>

(* The rows are deleted, their variants' rows with them, one upserted since the
   list was made included. *)
GcPurge ==
  /\ gcAt = "collected"
  /\ gcAt' = "purged"
  /\ left' = left \cup {b \in Blobs \ gcVariants :
                         References(b) # {} /\ References(b) \subseteq gc}
  /\ UNCHANGED <<store, request, others, gc, gcVariants, gcBlob, rcBlob, running>>

(* A seeded fault: rows are counted as others see them. *)
GcCountCommitted(b) ==
  /\ gcAt = "purged" /\ gcBlob = NoBlob /\ b \in gcVariants
  /\ gcVariants' = gcVariants \ {b}
  /\ gcBlob' = IF References(b) = {} THEN b ELSE NoBlob
  /\ UNCHANGED <<store, request, others, gcAt, gc, rcBlob, running, left>>

GcCount(b) ==
  /\ gcAt = "purged" /\ gcBlob = NoBlob /\ b \in gcVariants
  /\ gcVariants' = gcVariants \ {b}
  /\ gcBlob' = IF References(b) \ gc = {} THEN b ELSE NoBlob
  /\ UNCHANGED <<store, request, others, gcAt, gc, rcBlob, running, left>>

GcReclaim ==
  /\ gcBlob # NoBlob
  /\ blobs' = blobs \ {gcBlob}
  /\ gcBlob' = NoBlob
  /\ UNCHANGED <<row, request, others, gcAt, gc, gcVariants, rcBlob, running, left>>

GcStops == gcAt' = "idle" /\ gc' = {} /\ gcVariants' = {} /\ gcBlob' = NoBlob

GcCommit ==
  /\ gcAt = "purged" /\ gcVariants = {} /\ gcBlob = NoBlob
  /\ file' = [f \in Files |-> IF f \in gc THEN "purged" ELSE file[f]]
  /\ row' = [f \in Files |-> IF f \in gc THEN NoSpec ELSE row[f]]
  /\ GcStops
  /\ UNCHANGED <<preset, original, blobs, request, rcBlob, running, left>>

GcAborts ==
  /\ gcAt # "idle"
  /\ GcStops
  /\ UNCHANGED <<store, request, others, rcBlob, running, left>>

(* `run_reconcile` finds a blob older than the grace period without a row, also
   on looking again, and deletes it. *)
RcFind(b) ==
  /\ rcBlob = NoBlob
  /\ b \in blobs /\ References(b) = {}
  /\ \A r \in Requests : ~(at[r] = "upsert" /\ Wanted(r) = b)
  /\ "LoneCleaner" \in Assumed => gcAt = "idle"
  /\ rcBlob' = b
  /\ UNCHANGED <<store, request, others, gcAt, gc, gcVariants, gcBlob, running, left>>

RcDelete ==
  /\ rcBlob # NoBlob
  /\ blobs' = blobs \ {rcBlob}
  /\ rcBlob' = NoBlob
  /\ UNCHANGED <<row, request, others, gcAt, gc, gcVariants, gcBlob, running, left>>

-----------------------------------------------------------------------------
Proceed(r) ==
  \/ FindPolicy(r) \/ Lookup(r) \/ ReadOriginal(r) \/ FindPrior(r) \/ WriteBlob(r)
  \/ CountPrior(r) \/ ReclaimPrior(r) \/ Open(r) \/ Fail(r)

Collect ==
  \/ GcPurge \/ GcReclaim \/ GcCommit \/ \E b \in gcVariants : GcCount(b)

Next ==
  \/ \E r \in Requests :
       \/ Proceed(r) \/ Acquire(r) \/ Upsert(r) \/ Drop(r) \/ RenderEnds(r)
       \/ \E f \in Files : Begin(r, f)
  \/ \E spec \in Specs : Redefine(spec)
  \/ \E f \in Files : Delete(f)
  \/ \E k \in Keys, expired \in SUBSET Files : GcCollect(k, expired)
  \/ Collect \/ GcAborts
  \/ \E b \in blobs : RcFind(b)
  \/ RcDelete

Spec == Init /\ [][Next]_vars

-----------------------------------------------------------------------------
(* Properties.                                                                 *)

(* `serve_variant` answers 404 for a live file only if its blob is taken away  *)
(* twice; one rendering heals what the collector, reconcile and the requests   *)
(* for files with the same bytes take away, under the assumptions above.       *)
HealSuffices == \A r \in Requests : at[r] = "missing" => file[of[r]] # "live"

(* At rest every variant blob has a row or was given up: by a request that was *)
(* dropped or failed after it had written a blob, or whose file was purged     *)
(* under it; by one that could not count or delete what it had superseded, or  *)
(* counted rows the collector was about to commit as deleted; or by the        *)
(* collector, if the row came between its list and its purge.  Redefined       *)
(* presets and purged files leave nothing else for reconcile to find, however  *)
(* they overlap, and a blob that is rendered again is given up no more.        *)
NothingLeaks ==
  gcAt = "idle" /\ (\A r \in Requests : at[r] = "idle")
    => \A b \in blobs \ left : References(b) # {}

(* The semaphore of `render_and_cache` bounds the renders that run at once.    *)
RendersBounded == Cardinality(running) <= Permits
=============================================================================
