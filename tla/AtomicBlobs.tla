---------------------------- MODULE AtomicBlobs ----------------------------
(***************************************************************************)
(* What the blob store promises the rest of the server (traits BlobBackend *)
(* and BlobWriter): a key holds a whole object or none, an object appears  *)
(* in one step and only for a writer that was told to commit, a writer     *)
(* that reports success has published it, and one that was aborted         *)
(* publishes nothing any more.                                             *)
(***************************************************************************)
CONSTANTS
  Keys, Writers,
  KeyOf,      \* the key of each writer
  Whole,      \* the object each key is written with
  NoObject

VARIABLES
  store,      \* what each key holds
  told,       \* how each writer stands with its caller
  kept        \* keys an outage may leave with an object

vars == <<store, told, kept>>

Init ==
  /\ store = [k \in Keys |-> NoObject]
  /\ told = [w \in Writers |-> "writing"]
  /\ kept = {}

(* The caller asks for the object to appear. *)
Commit(w) ==
  /\ told[w] = "writing"
  /\ told' = [told EXCEPT ![w] = "committing"]
  /\ UNCHANGED <<store, kept>>

(* The object appears, perhaps after its caller gave up. *)
Publish(w) ==
  /\ told[w] \in {"committing", "late"}
  /\ store' = [store EXCEPT ![KeyOf[w]] = Whole[KeyOf[w]]]
  /\ told' = [told EXCEPT ![w] = IF @ = "late" THEN "gone" ELSE "published"]
  /\ kept' = kept \cup {KeyOf[w]}

Succeed(w) ==
  /\ told[w] = "published"
  /\ told' = [told EXCEPT ![w] = "ok"]
  /\ UNCHANGED <<store, kept>>

(* An error, or the caller is gone: nothing appears any more unless the writer
   was committing. *)
GiveUp(w) ==
  /\ \/ /\ told[w] \in {"writing", "committing", "published"}
        /\ told' = [told EXCEPT ![w] = "gone"]
     \/ /\ told[w] = "committing"
        /\ told' = [told EXCEPT ![w] = "late"]
  /\ UNCHANGED <<store, kept>>

Abort(w) ==
  /\ told[w] \in {"gone", "late"}
  /\ told' = [told EXCEPT ![w] = "aborted"]
  /\ UNCHANGED <<store, kept>>

Remove(k) ==
  /\ store' = [store EXCEPT ![k] = NoObject]
  /\ UNCHANGED <<told, kept>>

(* Writers are cut off: the process goes down. *)
CutOff(cut, late) ==
  /\ \A w \in late : told[w] \in {"committing", "late"}
  /\ told' = [w \in Writers |->
       CASE w \notin cut \/ told[w] \in {"ok", "aborted"} -> told[w]
         [] w \in late -> "late"
         [] OTHER -> "gone"]

(* The machine goes down: an object may be lost, or come back, and is never
   there in part. *)
Outage(found) ==
  /\ found \subseteq kept
  /\ store' = [k \in Keys |-> IF k \in found THEN Whole[k] ELSE NoObject]
  /\ kept' = found

Next ==
  \/ \E w \in Writers : Commit(w) \/ Publish(w) \/ Succeed(w) \/ GiveUp(w) \/ Abort(w)
  \/ \E k \in Keys : Remove(k)
  \/ \E cut \in SUBSET Writers : \E late \in SUBSET cut :
       /\ CutOff(cut, late)
       /\ UNCHANGED <<store, kept>> \/ \E found \in SUBSET Keys : Outage(found)

Spec == Init /\ [][Next]_vars
=============================================================================
