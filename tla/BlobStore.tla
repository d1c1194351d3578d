----------------------------- MODULE BlobStore -----------------------------
(***************************************************************************)
(* The two drivers behind trait BlobBackend, step by step.  LocalDisk      *)
(* streams into a file of its own under .tmp and renames it to the key; S3 *)
(* collects chunks into parts of a multipart upload and completes it.  The *)
(* callers are files::stream_field, which aborts its writer on any error,  *)
(* and render_and_cache (Renders), which does not.  A caller may be        *)
(* dropped at any await, and the process or the machine may go down.       *)
(*                                                                         *)
(* A chunk of an object is its number; `staged` is the temporary file, or  *)
(* what a multipart upload would be completed with.                        *)
(***************************************************************************)
EXTENDS Naturals, Sequences

CONSTANTS
  Keys, Writers,
  KeyOf,      \* the key of each writer; a key determines the bytes
  Size,       \* the number of chunks of each key's object
  Renders,    \* the writers of render_and_cache
  PartSize,   \* chunks in a part (S3_PART_SIZE)
  Syncs,      \* the results of sync_all to consider: TRUE is success
  NoObject    \* no file, no multipart upload, no object

ASSUME BlobsAssumption ==
  /\ KeyOf \in [Writers -> Keys]
  /\ Size \in [Keys -> Nat \ {0}]
  /\ Renders \subseteq Writers
  /\ PartSize \in Nat \ {0}
  /\ Syncs \subseteq BOOLEAN
  /\ NoObject \notin Seq(Nat)

VARIABLES
  backend,    \* the driver from_config chose
  at,         \* where each writer stands
  sent,       \* chunks passed to write so far
  buf,        \* S3: chunks not yet in a part
  staged,     \* the temporary file or multipart upload of each writer
  asked,      \* writers whose rename or completion was asked for, not done yet
  volatile,   \* writers whose bytes sync_all has not put on disk
  past,       \* what each key may hold after a power loss
  store,      \* the object under each key
  temps,      \* writers whose temporary file may be there after a power loss
  undone      \* writers that were over when a power loss gave their file back

vars == <<backend, at, sent, buf, staged, asked, volatile, past, store, temps, undone>>

Whole == [k \in Keys |-> [i \in 1..Size[k] |-> i]]

Busy == {"open", "part", "last", "publishing", "published", "aborting"}

TypeOK ==
  /\ backend \in {"local", "s3"}
  /\ at \in [Writers -> Busy \cup {"idle", "ok", "aborted", "left"}]
  /\ sent \in [Writers -> Nat]
  /\ buf \in [Writers -> Seq(Nat)] /\ \A w \in Writers : Len(buf[w]) <= PartSize
  /\ staged \in [Writers -> Seq(Nat) \cup {NoObject}]
  /\ asked \subseteq Writers
  /\ volatile \subseteq Writers
  /\ past \in [Keys -> SUBSET (Seq(Nat) \cup {NoObject})]
  /\ store \in [Keys -> Seq(Nat) \cup {NoObject}]
  /\ temps \subseteq Writers
  /\ undone \subseteq Writers

Init ==
  /\ backend \in {"local", "s3"}
  /\ at = [w \in Writers |-> "idle"]
  /\ sent = [w \in Writers |-> 0]
  /\ buf = [w \in Writers |-> <<>>]
  /\ staged = [w \in Writers |-> NoObject]
  /\ asked = {} /\ volatile = {}
  /\ past = [k \in Keys |-> {NoObject}]
  /\ store = [k \in Keys |-> NoObject]
  /\ temps = {} /\ undone = {}

Goes(w, from, to) ==
  /\ at[w] = from
  /\ at' = [at EXCEPT ![w] = to]

(* What the caller does with an error. *)
OnError(w) == IF w \in Renders THEN "left" ELSE "aborting"

-----------------------------------------------------------------------------
(* Opening and writing. *)

(* A seeded fault: the temporary file is named after the key. *)
TempOfKey(w) == CHOOSE v \in Writers : KeyOf[v] = KeyOf[w]

(* A fresh uuid, or the upload id the service gave. *)
Temp(w) == w

(* create_dir_all and File::create, or create_multipart_upload. *)
Open(w) ==
  /\ Goes(w, "idle", "open")
  /\ staged' = [staged EXCEPT ![Temp(w)] = <<>>]
  /\ temps' = temps \cup {Temp(w)}
  /\ UNCHANGED <<backend, sent, buf, asked, volatile, past, store, undone>>

(* An error, or the caller is dropped: the file, or an upload whose id nobody
   knows, may be there. *)
OpenFails(w) ==
  /\ Goes(w, "idle", "left")
  /\ \/ UNCHANGED <<staged, temps>>
     \/ staged' = [staged EXCEPT ![Temp(w)] = <<>>] /\ temps' = temps \cup {Temp(w)}
  /\ UNCHANGED <<backend, sent, buf, asked, volatile, past, store, undone>>

More(w) == at[w] = "open" /\ sent[w] < Size[KeyOf[w]]

(* LocalWriter::write *)
WriteFile(w) ==
  /\ backend = "local" /\ More(w)
  /\ sent' = [sent EXCEPT ![w] = @ + 1]
  /\ staged' = [staged EXCEPT ![Temp(w)] = Append(@, sent[w] + 1)]
  /\ UNCHANGED <<backend, at, buf, asked, volatile, past, store, temps, undone>>

(* Disk full: a part of the chunk may have been written. *)
WriteFileFails(w) ==
  /\ backend = "local" /\ More(w)
  /\ Goes(w, "open", OnError(w))
  /\ \/ UNCHANGED staged
     \/ staged' = [staged EXCEPT ![Temp(w)] = Append(@, 0)]
  /\ UNCHANGED <<backend, sent, buf, asked, volatile, past, store, temps, undone>>

(* S3Writer::write up to the flush of a full part. *)
BufferChunk(w) ==
  /\ backend = "s3" /\ More(w)
  /\ sent' = [sent EXCEPT ![w] = @ + 1]
  /\ buf' = [buf EXCEPT ![w] = Append(@, sent[w] + 1)]
  /\ at' = [at EXCEPT ![w] = IF Len(buf'[w]) >= PartSize THEN "part" ELSE "open"]
  /\ UNCHANGED <<backend, staged, asked, volatile, past, store, temps, undone>>

(* A seeded fault: the buffer is not taken. *)
PartUploadedTwice(w) ==
  /\ \/ Goes(w, "part", "open") /\ UNCHANGED asked
     \/ Goes(w, "last", "publishing") /\ asked' = asked \cup {w}
  /\ staged' = [staged EXCEPT ![Temp(w)] = @ \o buf[w]]
  /\ UNCHANGED <<backend, sent, buf, volatile, past, store, temps, undone>>

(* S3Writer::flush_part: the part is listed once its etag is known.  After the
   last one commit sends complete_multipart_upload. *)
PartUploaded(w) ==
  /\ \/ Goes(w, "part", "open") /\ UNCHANGED asked
     \/ Goes(w, "last", "publishing") /\ asked' = asked \cup {w}
  /\ staged' = [staged EXCEPT ![Temp(w)] = @ \o buf[w]]
  /\ buf' = [buf EXCEPT ![w] = <<>>]
  /\ UNCHANGED <<backend, sent, volatile, past, store, temps, undone>>

(* The buffer was taken, and the part is not listed whether it arrived or not. *)
PartFails(w) ==
  /\ Goes(w, "part", OnError(w)) \/ Goes(w, "last", OnError(w))
  /\ buf' = [buf EXCEPT ![w] = <<>>]
  /\ UNCHANGED <<backend, sent, staged, asked, volatile, past, store, temps, undone>>

(* The body is too large, or its stream breaks (stream_field). *)
Reject(w) ==
  /\ w \notin Renders
  /\ Goes(w, "open", "aborting")
  /\ UNCHANGED <<backend, sent, buf, staged, asked, volatile, past, store, temps, undone>>

-----------------------------------------------------------------------------
(* Committing. *)

AllSent(w) == at[w] = "open" /\ sent[w] = Size[KeyOf[w]]

(* A seeded fault: the file is renamed without sync_all. *)
FlushUnsynced(w) ==
  /\ backend = "local" /\ AllSent(w)
  /\ Goes(w, "open", "publishing")
  /\ volatile' = volatile \cup {w}
  /\ asked' = asked \cup {w}
  /\ UNCHANGED <<backend, sent, buf, staged, past, store, temps, undone>>

(* LocalWriter::commit: flush and sync_all, whose error is ignored; then the
   rename is handed to the blocking pool. *)
FlushFile(w) ==
  /\ backend = "local" /\ AllSent(w)
  /\ Goes(w, "open", "publishing")
  /\ \E synced \in Syncs :
       volatile' = IF synced THEN volatile ELSE volatile \cup {w}
  /\ asked' = asked \cup {w}
  /\ UNCHANGED <<backend, sent, buf, staged, past, store, temps, undone>>

FlushFileFails(w) ==
  /\ backend = "local" /\ AllSent(w)
  /\ Goes(w, "open", OnError(w))
  /\ UNCHANGED <<backend, sent, buf, staged, asked, volatile, past, store, temps, undone>>

(* S3Writer::commit: a last part for the trailing bytes, then the completion. *)
CommitParts(w) ==
  /\ backend = "s3" /\ AllSent(w)
  /\ IF buf[w] # <<>> \/ staged[Temp(w)] = <<>>
     THEN Goes(w, "open", "last") /\ UNCHANGED asked
     ELSE Goes(w, "open", "publishing") /\ asked' = asked \cup {w}
  /\ UNCHANGED <<backend, sent, buf, staged, volatile, past, store, temps, undone>>

(* The rename or the completion takes effect, with or without a caller that
   still waits for it. *)
Publish(w) ==
  /\ w \in asked
  /\ asked' = asked \ {w}
  /\ staged[Temp(w)] # NoObject
  /\ store' = [store EXCEPT ![KeyOf[w]] = staged[Temp(w)]]
  /\ staged' = [staged EXCEPT ![Temp(w)] = NoObject]
  /\ past' = [past EXCEPT ![KeyOf[w]] =
                @ \cup {IF w \in volatile THEN <<>> ELSE staged[Temp(w)]}]
  /\ at' = [at EXCEPT ![w] = IF @ = "publishing" THEN "published" ELSE @]
  /\ UNCHANGED <<backend, sent, buf, volatile, temps, undone>>

(* The rename fails; the completion is refused, or its answer does not come
   and it may still take effect. *)
PublishFails(w) ==
  /\ Goes(w, "publishing", OnError(w))
  /\ \/ asked' = asked \ {w}
     \/ backend = "s3" /\ UNCHANGED asked
  /\ UNCHANGED <<backend, sent, buf, staged, volatile, past, store, temps, undone>>

Answer(w) ==
  /\ Goes(w, "published", "ok")
  /\ UNCHANGED <<backend, sent, buf, staged, asked, volatile, past, store, temps, undone>>

(* The object is there and the answer of the service is lost. *)
AnswerLost(w) ==
  /\ backend = "s3"
  /\ Goes(w, "published", OnError(w))
  /\ UNCHANGED <<backend, sent, buf, staged, asked, volatile, past, store, temps, undone>>

(* abort: the temporary file is removed, the multipart upload is discarded
   (no error if it was completed) and cannot be completed any more. *)
Abort(w) ==
  /\ Goes(w, "aborting", "aborted")
  /\ staged' = [staged EXCEPT ![Temp(w)] = NoObject]
  /\ asked' = asked \ {w}
  /\ UNCHANGED <<backend, sent, buf, volatile, past, store, temps, undone>>

(* abort ignores its errors. *)
AbortFails(w) ==
  /\ Goes(w, "aborting", "left")
  /\ UNCHANGED <<backend, sent, buf, staged, asked, volatile, past, store, temps, undone>>

-----------------------------------------------------------------------------
(* The rest of the world. *)

(* The caller's future is dropped; what was asked of another thread or of the
   service goes on. *)
Drop(w) ==
  /\ at[w] \in Busy
  /\ at' = [at EXCEPT ![w] = "left"]
  /\ UNCHANGED <<backend, sent, buf, staged, asked, volatile, past, store, temps, undone>>

(* BlobBackend::delete *)
Delete(k) ==
  /\ store[k] # NoObject
  /\ store' = [store EXCEPT ![k] = NoObject]
  /\ past' = [past EXCEPT ![k] = @ \cup {NoObject}]
  /\ UNCHANGED <<backend, at, sent, buf, staged, asked, volatile, temps, undone>>

AllLeft == [w \in Writers |-> IF at[w] \in Busy THEN "left" ELSE at[w]]

(* The process dies; no temporary file or multipart upload is looked for when
   it starts again. *)
Crash ==
  /\ at' = AllLeft
  /\ asked' = IF backend = "local" THEN {} ELSE asked
  /\ UNCHANGED <<backend, sent, buf, staged, volatile, past, store, temps, undone>>

(* The machine of a local disk loses power.  Directories are not synced, so the
   last renames and removals of a key may be undone; bytes that were not synced
   are lost, and the file is empty.  The directory .tmp is not synced either:
   a file created there may be lost, and one renamed or removed may be back,
   with bytes nobody will read. *)
PowerLoss(found, temp) ==
  /\ backend = "local"
  /\ \A k \in Keys : found[k] \in past[k]
  /\ store' = found
  /\ past' = [k \in Keys |-> {found[k]}]
  /\ staged' = [w \in Writers |-> IF w \in temp THEN <<>> ELSE NoObject]
  /\ temps' = temp
  /\ undone' = {w \in temp : at[w] \in {"ok", "aborted"}}
  /\ at' = AllLeft
  /\ asked' = {}
  /\ UNCHANGED <<backend, sent, buf, volatile>>

Write(w) ==
  \/ Open(w) \/ OpenFails(w) \/ WriteFile(w) \/ WriteFileFails(w)
  \/ BufferChunk(w) \/ PartUploaded(w) \/ PartFails(w) \/ Reject(w)

Commit(w) ==
  \/ FlushFile(w) \/ FlushFileFails(w) \/ CommitParts(w)
  \/ Publish(w) \/ PublishFails(w) \/ Answer(w) \/ AnswerLost(w)
  \/ Abort(w) \/ AbortFails(w)

Next ==
  \/ \E w \in Writers : Write(w) \/ Commit(w) \/ Drop(w)
  \/ \E k \in Keys : Delete(k)
  \/ Crash
  \/ \E found \in [Keys -> UNION {past[k] : k \in Keys}], temp \in SUBSET temps :
       PowerLoss(found, temp)

Spec == Init /\ [][Next]_vars
-----------------------------------------------------------------------------
(* Properties. *)

(* How a writer stands with its caller, as AtomicBlobs sees it. *)
Told(w) ==
  CASE at[w] \in {"idle", "open", "part", "last"} -> "writing"
    [] at[w] = "publishing" -> "committing"
    [] at[w] \in {"aborting", "left"} -> IF w \in asked THEN "late" ELSE "gone"
    [] OTHER -> at[w]

Promise == INSTANCE AtomicBlobs WITH
  told <- [w \in Writers |-> Told(w)],
  kept <- {k \in Keys : past[k] # {NoObject}}

(* Both drivers keep the promise of BlobBackend, across errors, lost answers,  *)
(* dropped callers, overlapping writers of one key, crashes and power loss.    *)
Atomic == Promise!Spec

(* Nothing lists or removes a temporary file or a multipart upload again: what *)
(* is left of a writer that is over was left by a caller that did not abort,   *)
(* or could not, or by a power loss that undid its rename or its removal.      *)
(* Otherwise a rejected upload leaves nothing, and neither does one that       *)
(* succeeds, and nothing of either can still be published.                     *)
NothingLeftBehind ==
  \A w \in Writers : at[w] \in {"ok", "aborted"} =>
    /\ staged[w] # NoObject => w \in undone
    /\ w \notin asked
=============================================================================
