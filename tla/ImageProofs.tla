---------------------------- MODULE ImageProofs ----------------------------
(***************************************************************************)
(* Proofs about images.  Of the variants, for any requests, files and keys *)
(* and presets redefined in any order: no variant's blob stays in the      *)
(* store without a row, and a lost rendering takes one to heal.  Of their  *)
(* sizes, for every limit, image and preset: renderings are as large as    *)
(* the limits allow at most, and what `cover` crops is sound.              *)
(***************************************************************************)
EXTENDS Variants, Transform, TLAPS

-----------------------------------------------------------------------------
(* VARIANTS *)

TypeInv ==
  /\ TypeOK
  /\ \A r \in Requests :
       /\ at[r] # "idle" => of[r] \in Files
       /\ at[r] \notin {"idle", "found"} => want[r] \in Specs

(* No preset is redefined while a request is under way. *)
QuietInv ==
  \A r \in Requests : at[r] \notin {"idle", "found"} => want[r] = preset

GcInv ==
  /\ gcAt = "idle" => gc = {} /\ gcVariants = {}
  /\ gcBlob # NoBlob => gcAt = "purged" /\ gcBlob \notin gcVariants
  /\ \A f \in gc : file[f] = "trash"

-----------------------------------------------------------------------------
(* Nothing leaks. *)

(* What a request will find in the row it replaces is what it replaces. *)
PriorInv ==
  \A r \in Requests :
    at[r] \in {"write", "upsert"} /\ file[of[r]] # "purged"
      => row[of[r]] \in {prior[r], want[r]}

(* Some request has yet to make the row of b, or to look at the rows b may have
   lost to it. *)
Owed(b) == \E r \in Requests : Owes(r, b)

(* Every blob has a row or somebody who will see to it, in the table as the
   collector sees it and as everybody else does, should it abort. *)
LeakInv ==
  \A b \in blobs \ left :
    /\ References(b) # {} \/ Owed(b)
    /\ gcAt = "purged" => \/ References(b) \ gc # {} \/ Owed(b)
                          \/ b \in gcVariants \/ b = gcBlob

-----------------------------------------------------------------------------
(* One rendering heals. *)

AloneInv == gcAt # "idle" => rcBlob = NoBlob

(* A request deletes only a blob of another preset, which gets no row again. *)
ReclaimInv ==
  \A r \in Requests :
    at[r] = "reclaim" =>
      prior[r] \notin {NoSpec, want[r]} /\ References(Superseded(r)) = {}

(* A blob that is about to be deleted, and has got a row again, is still there. *)
DoomedInv ==
  /\ rcBlob # NoBlob /\ References(rcBlob) # {} => rcBlob \in blobs
  /\ gcBlob # NoBlob /\ References(gcBlob) \ gc # {} => gcBlob \in blobs

(* So it is when a request is about to give it one. *)
WrittenInv ==
  \A r \in Requests :
    at[r] = "upsert" /\ Wanted(r) \in gcVariants \cup {gcBlob, rcBlob}
      => Wanted(r) \in blobs

Live(r) == at[r] # "idle" /\ file[of[r]] = "live"

(* From its first rendering on a request for a live file has its row. *)
RowInv ==
  \A r \in Requests :
    Live(r) /\ (healing[r] \/ at[r] \in {"count", "reclaim", "open"})
      => row[of[r]] = want[r]

(* Nobody is about to delete what it renders the second time. *)
Heals(r) ==
  /\ at[r] = "missing" => healing[r]
  /\ healing[r] => at[r] \in {"acquire", "open", "missing"} \cup Rendering
  /\ Live(r) /\ healing[r] =>
       /\ Wanted(r) \notin {gcBlob, rcBlob}
       /\ at[r] \in {"upsert", "count", "reclaim", "open"} => Wanted(r) \in blobs
       /\ at[r] # "missing"

HealInv == \A r \in Requests : Heals(r)

-----------------------------------------------------------------------------
LEMMA TypeInit == Init => TypeInv
<1>1. ASSUME Init PROVE TypeOK
  BY <1>1, KeyAssumption DEF Init, TypeOK
<1>2. ASSUME Init, NEW r \in Requests PROVE at[r] = "idle"
  BY <1>2 DEF Init
<1> QED BY <1>1, <1>2 DEF TypeInv

LEMMA TypeStep == TypeInv /\ [Next]_vars => TypeInv'
<1> SUFFICES ASSUME TypeInv, [Next]_vars PROVE TypeInv'
  OBVIOUS
<1> USE KeyAssumption DEF TypeInv, TypeOK, Rendering, Goto, Leave, Rendered, store, request,
      others, collector
<1>1. ASSUME NEW r \in Requests, NEW f \in Files, Begin(r, f) PROVE TypeInv'
  BY <1>1 DEF Begin
<1>2. ASSUME NEW r \in Requests, Proceed(r) PROVE TypeInv'
  <2>1. CASE FindPolicy(r) \/ Lookup(r)
    BY <2>1 DEF FindPolicy, Lookup
  <2>2. CASE ReadOriginal(r) \/ FindPrior(r)
    BY <2>2 DEF ReadOriginal, FindPrior
  <2>3. CASE WriteBlob(r)
    BY <2>3 DEF WriteBlob, Wanted, Blobs
  <2>4. CASE CountPrior(r) \/ ReclaimPrior(r)
    BY <2>4 DEF CountPrior, ReclaimPrior, GiveUp
  <2>5. CASE Open(r) \/ Fail(r)
    BY <2>5 DEF Open, Fail
  <2> QED BY <1>2, <2>1, <2>2, <2>3, <2>4, <2>5 DEF Proceed
<1>3. ASSUME NEW r \in Requests, Acquire(r) \/ Upsert(r) \/ Drop(r) \/ RenderEnds(r)
      PROVE  TypeInv'
  <2>1. CASE Acquire(r) \/ RenderEnds(r)
    BY <2>1 DEF Acquire, RenderEnds
  <2>2. CASE Upsert(r)
    BY <2>2 DEF Upsert, GiveUp
  <2>3. CASE Drop(r)
    BY <2>3 DEF Drop, GiveUp, Wanted, Blobs
  <2> QED BY <1>3, <2>1, <2>2, <2>3
<1>4. ASSUME NEW spec \in Specs, Redefine(spec) PROVE TypeInv'
  BY <1>4 DEF Redefine
<1>5. ASSUME NEW f \in Files, Delete(f) PROVE TypeInv'
  BY <1>5 DEF Delete
<1>6. ASSUME NEW k \in Keys, NEW expired \in SUBSET Files, GcCollect(k, expired) PROVE TypeInv'
  BY <1>6 DEF GcCollect, Blobs
<1>7. CASE Collect \/ GcAborts
  BY <1>7 DEF Collect, GcAborts, GcStops, GcPurge, GcCount, GcReclaim, GcCommit
<1>8. CASE RcDelete \/ \E b \in blobs : RcFind(b)
  BY <1>8 DEF RcDelete, RcFind
<1>9. CASE UNCHANGED vars
  BY <1>9 DEF vars
<1> QED BY <1>1, <1>2, <1>3, <1>4, <1>5, <1>6, <1>7, <1>8, <1>9 DEF Next

-----------------------------------------------------------------------------
LEMMA GcStep == TypeInv /\ GcInv /\ [Next]_vars => GcInv'
<1> SUFFICES ASSUME TypeInv, GcInv, [Next]_vars PROVE GcInv'
  OBVIOUS
<1> USE DEF TypeInv, TypeOK, GcInv, store, request, others, collector
<1>1. CASE \/ \E r \in Requests :
                \/ Proceed(r) \/ Acquire(r) \/ Upsert(r) \/ Drop(r) \/ RenderEnds(r)
                \/ \E f \in Files : Begin(r, f)
           \/ \E spec \in Specs : Redefine(spec)
           \/ RcDelete \/ \E b \in blobs : RcFind(b)
           \/ UNCHANGED vars
  BY <1>1 DEF Proceed, Acquire, Upsert, Drop, RenderEnds, Begin, FindPolicy, Lookup,
       ReadOriginal, FindPrior, WriteBlob, CountPrior, ReclaimPrior, Open, Fail, Redefine,
       RcDelete, RcFind, vars
<1>2. ASSUME NEW f \in Files, Delete(f) PROVE GcInv'
  BY <1>2 DEF Delete
<1>3. ASSUME NEW k \in Keys, NEW expired \in SUBSET Files, GcCollect(k, expired) PROVE GcInv'
  BY <1>3 DEF GcCollect
<1>4. CASE Collect \/ GcAborts
  BY <1>4, NoneAssumption
     DEF Collect, GcAborts, GcStops, GcPurge, GcCount, GcReclaim, GcCommit, Blobs
<1> QED BY <1>1, <1>2, <1>3, <1>4 DEF Next

LEMMA QuietStep ==
  ASSUME "QuietCatalog" \in Assumed
  PROVE  TypeInv /\ QuietInv /\ [Next]_vars => QuietInv'
<1> SUFFICES ASSUME TypeInv, QuietInv, [Next]_vars PROVE QuietInv'
  OBVIOUS
<1> USE DEF TypeInv, TypeOK, QuietInv, Goto, Leave, Rendered, store, request, others, collector
<1>1. ASSUME NEW r \in Requests, Proceed(r) PROVE QuietInv'
  <2>1. CASE FindPolicy(r) \/ Lookup(r) \/ ReadOriginal(r) \/ FindPrior(r) \/ WriteBlob(r)
    BY <2>1 DEF FindPolicy, Lookup, ReadOriginal, FindPrior, WriteBlob
  <2>2. CASE CountPrior(r) \/ ReclaimPrior(r) \/ Open(r) \/ Fail(r)
    BY <2>2 DEF CountPrior, ReclaimPrior, Open, Fail
  <2> QED BY <1>1, <2>1, <2>2 DEF Proceed
<1>2. ASSUME NEW r \in Requests,
             \/ Acquire(r) \/ Upsert(r) \/ Drop(r) \/ RenderEnds(r)
             \/ \E f \in Files : Begin(r, f)
      PROVE  QuietInv'
  BY <1>2 DEF Acquire, Upsert, Drop, RenderEnds, Begin
<1>3. ASSUME NEW spec \in Specs, Redefine(spec) PROVE QuietInv'
  BY <1>3 DEF Redefine
<1>4. CASE \/ \E f \in Files : Delete(f)
           \/ \E k \in Keys, expired \in SUBSET Files : GcCollect(k, expired)
           \/ Collect \/ GcAborts \/ RcDelete \/ \E b \in blobs : RcFind(b)
           \/ UNCHANGED vars
  BY <1>4 DEF Delete, GcCollect, Collect, GcAborts, GcPurge, GcCount, GcReclaim, GcCommit,
       RcDelete, RcFind, vars
<1> QED BY <1>1, <1>2, <1>3, <1>4 DEF Next

LEMMA PriorStep ==
  ASSUME "QuietCatalog" \in Assumed
  PROVE  TypeInv /\ GcInv /\ QuietInv /\ PriorInv /\ [Next]_vars => PriorInv'
<1> SUFFICES ASSUME TypeInv, GcInv, QuietInv, PriorInv, [Next]_vars PROVE PriorInv'
  OBVIOUS
<1> USE DEF TypeInv, TypeOK, PriorInv, Goto, Leave, Rendered, store, request, others, collector
<1>1. ASSUME NEW r \in Requests, Proceed(r) PROVE PriorInv'
  <2>1. CASE FindPolicy(r) \/ Lookup(r) \/ ReadOriginal(r) \/ FindPrior(r) \/ WriteBlob(r)
    BY <2>1 DEF FindPolicy, Lookup, ReadOriginal, FindPrior, WriteBlob
  <2>2. CASE CountPrior(r) \/ ReclaimPrior(r) \/ Open(r) \/ Fail(r)
    BY <2>2 DEF CountPrior, ReclaimPrior, Open, Fail
  <2> QED BY <1>1, <2>1, <2>2 DEF Proceed
<1>2. ASSUME NEW r \in Requests, Upsert(r) PROVE PriorInv'
  BY <1>2 DEF Upsert, QuietInv
<1>3. ASSUME NEW r \in Requests,
             Acquire(r) \/ Drop(r) \/ RenderEnds(r) \/ \E f \in Files : Begin(r, f)
      PROVE  PriorInv'
  BY <1>3 DEF Acquire, Drop, RenderEnds, Begin
<1>4. ASSUME NEW spec \in Specs, Redefine(spec) PROVE PriorInv'
  BY <1>4 DEF Redefine
<1>5. ASSUME NEW f \in Files, Delete(f) PROVE PriorInv'
  BY <1>5 DEF Delete
<1>6. CASE GcCommit
  BY <1>6 DEF GcCommit
<1>7. CASE \/ \E k \in Keys, expired \in SUBSET Files : GcCollect(k, expired)
           \/ GcPurge \/ GcReclaim \/ (\E b \in gcVariants : GcCount(b))
           \/ GcAborts \/ RcDelete \/ (\E b \in blobs : RcFind(b))
           \/ UNCHANGED vars
  BY <1>7 DEF GcCollect, GcAborts, GcPurge, GcCount, GcReclaim, RcDelete, RcFind, vars
<1> QED BY <1>1, <1>2, <1>3, <1>4, <1>5, <1>6, <1>7 DEF Next, Collect

(* A request that owes nothing may go where it likes. *)
LEMMA OwedByOthers ==
  ASSUME NEW r \in Requests, NEW b, Owed(b), ~Owes(r, b),
         \A q \in Requests \ {r} :
           /\ at'[q] = at[q] /\ of'[q] = of[q]
           /\ want'[q] = want[q] /\ prior'[q] = prior[q]
  PROVE  Owed(b)'
BY DEF Owed, Owes, Wanted, Supersedes, Superseded

(* Whether or not request r owes b something, giving up is safe: it forgets a
   blob that nobody else has a row for. *)
Kept(b) ==
  /\ References(b) # {} \/ Owed(b)
  /\ gcAt = "purged" => \/ References(b) \ gc # {} \/ Owed(b)
                        \/ b \in gcVariants \/ b = gcBlob

LEMMA GiveUpStep ==
  ASSUME TypeInv, LeakInv, NEW r \in Requests, GiveUp(r),
         NEW b \in blobs, b \notin left', UNCHANGED <<row, collector>>,
         \A q \in Requests \ {r} :
           /\ at'[q] = at[q] /\ of'[q] = of[q]
           /\ want'[q] = want[q] /\ prior'[q] = prior[q]
  PROVE  Kept(b)'
<1>1. b \in Blobs /\ b \notin left
  BY DEF TypeInv, TypeOK, GiveUp
<1>2. References(b)' = References(b) /\ UNCHANGED <<gcAt, gc, gcVariants, gcBlob>>
  BY DEF References, collector
<1>3. CASE Owes(r, b)
  <2>1. ~Untended(b)
    BY <1>1, <1>3 DEF GiveUp
  <2>2. References(b) # {} /\ (gcAt = "purged" => References(b) \ gc # {})
    BY <2>1 DEF Untended
  <2> QED BY <1>2, <2>2 DEF Kept
<1>4. CASE ~Owes(r, b)
  <2>1. Kept(b)
    BY <1>1 DEF LeakInv, Kept
  <2>2. Owed(b) => Owed(b)'
    BY <1>4, OwedByOthers
  <2> QED BY <1>2, <2>1, <2>2 DEF Kept
<1> QED BY <1>3, <1>4

LEMMA LeakStep ==
  ASSUME "QuietCatalog" \in Assumed
  PROVE  TypeInv /\ GcInv /\ PriorInv /\ LeakInv /\ [Next]_vars => LeakInv'
<1> SUFFICES ASSUME TypeInv, GcInv, PriorInv, LeakInv, [Next]_vars,
                    NEW b \in blobs', b \notin left'
             PROVE  Kept(b)'
  BY DEF LeakInv, Kept
<1>0. ASSUME b \in blobs \ left PROVE Kept(b)
  BY <1>0 DEF LeakInv, Kept
<1> USE DEF Kept, TypeInv, TypeOK, Goto, Leave, Rendered, store, request, others, collector
<1>1. ASSUME NEW r \in Requests,
             \/ FindPolicy(r) \/ Lookup(r) \/ ReadOriginal(r) \/ FindPrior(r)
             \/ Open(r) \/ Fail(r) \/ Acquire(r) \/ \E f \in Files : Begin(r, f)
      PROVE  Kept(b)'
  <2>1. /\ UNCHANGED <<store, collector, left>>
        /\ at[r] \notin {"upsert", "count", "reclaim"}
        /\ \A q \in Requests \ {r} :
             /\ at'[q] = at[q] /\ of'[q] = of[q]
             /\ want'[q] = want[q] /\ prior'[q] = prior[q]
    BY <1>1 DEF FindPolicy, Lookup, ReadOriginal, FindPrior, Open, Fail, Acquire, Begin
  <2>2. Owed(b) => Owed(b)'
    BY <2>1, OwedByOthers DEF Owes
  <2> QED BY <1>0, <2>1, <2>2 DEF References
<1>2. ASSUME NEW r \in Requests, WriteBlob(r) PROVE Kept(b)'
  <2>1. CASE b = Wanted(r)
    BY <1>2, <2>1 DEF WriteBlob, Owed, Owes, Wanted
  <2>2. CASE b # Wanted(r)
    <3>1. b \in blobs \ left /\ ~Owes(r, b)
      BY <1>2, <2>2 DEF WriteBlob, Owes
    <3>2. Owed(b) => Owed(b)'
      BY <1>2, <3>1, OwedByOthers DEF WriteBlob
    <3> QED BY <1>0, <1>2, <3>1, <3>2 DEF WriteBlob, References
  <2> QED BY <2>1, <2>2
<1>3. ASSUME NEW r \in Requests, Upsert(r) PROVE Kept(b)'
  <2> SUFFICES ASSUME file[of[r]] # "purged" PROVE Kept(b)'
    <3>1. CASE file[of[r]] = "purged"
      <4>1. /\ GiveUp(r) /\ UNCHANGED <<row, blobs, collector>>
            /\ \A q \in Requests \ {r} :
                 /\ at'[q] = at[q] /\ of'[q] = of[q]
                 /\ want'[q] = want[q] /\ prior'[q] = prior[q]
        BY <1>3, <3>1 DEF Upsert
      <4> HIDE DEF TypeInv, TypeOK, Kept
      <4> QED BY <4>1, GiveUpStep
    <3> QED BY <3>1
  <2>1. /\ at[r] = "upsert" /\ at' = [at EXCEPT ![r] = "count"]
        /\ file[of[r]] # "purged" /\ of[r] \in Files
        /\ row' = [row EXCEPT ![of[r]] = want[r]]
        /\ want[r] \in Specs
        /\ gcAt = "purged" => of[r] \notin gc
        /\ UNCHANGED <<of, want, prior, blobs, collector>>
        /\ left' = left \ {Wanted(r)}
    BY <1>3 DEF Upsert
  <2>2. b # Wanted(r) => Kept(b)
    BY <1>0, <2>1
  <2>3. CASE b = Wanted(r)
    <3>1. of[r] \in References(b)'
      BY <2>1, <2>3, NoneAssumption DEF References, Wanted
    <3> QED BY <2>1, <3>1
  <2>4. CASE b # Wanted(r) /\ of[r] \in References(b)
    <3>1. b = <<Key[of[r]], row[of[r]]>> /\ row[of[r]] # NoSpec
      BY <2>4 DEF References
    <3>2. row[of[r]] = prior[r] /\ prior[r] # want[r]
      BY <2>1, <2>4, <3>1 DEF PriorInv, Wanted
    <3>3. Owes(r, b)'
      BY <2>1, <3>1, <3>2 DEF Owes, Supersedes, Superseded
    <3> QED BY <3>3 DEF Owed
  <2>5. CASE b # Wanted(r) /\ of[r] \notin References(b)
    <3>1. Owed(b) => Owed(b)'
      BY <2>1, <2>5, OwedByOthers DEF Owes
    <3>2. References(b)' = References(b)
      BY <2>1, <2>5 DEF References, Wanted
    <3> QED BY <2>1, <2>2, <2>5, <3>1, <3>2
  <2> QED BY <2>3, <2>4, <2>5
<1>4. ASSUME NEW r \in Requests, CountPrior(r) \/ ReclaimPrior(r) \/ Drop(r) PROVE Kept(b)'
  <2>1. /\ UNCHANGED <<row, collector>>
        /\ \A q \in Requests \ {r} :
             /\ at'[q] = at[q] /\ of'[q] = of[q]
             /\ want'[q] = want[q] /\ prior'[q] = prior[q]
    BY <1>4 DEF CountPrior, ReclaimPrior, Drop
  <2>2. CASE GiveUp(r) /\ b \in blobs
    <3> HIDE DEF TypeInv, TypeOK, Kept
    <3> QED BY <2>1, <2>2, GiveUpStep
  <2>3. CASE CountPrior(r) /\ ~GiveUp(r)
    <3>1. /\ at[r] = "count" /\ at' = [at EXCEPT ![r] = "reclaim"]
          /\ UNCHANGED <<of, want, prior, blobs, left>>
      BY <2>3 DEF CountPrior
    <3>2. Owed(b) => Owed(b)'
      BY <2>1, <3>1 DEF Owed, Owes, Supersedes, Superseded, Wanted
    <3> QED BY <1>0, <2>1, <3>1, <3>2 DEF References
  <2>4. CASE ReclaimPrior(r) /\ ~GiveUp(r)
    <3>1. b \in blobs \ left /\ ~Owes(r, b)
      BY <2>4 DEF ReclaimPrior, Owes
    <3>2. Owed(b) => Owed(b)'
      BY <2>1, <3>1, OwedByOthers
    <3> QED BY <1>0, <2>1, <3>1, <3>2 DEF References
  <2>5. CASE Drop(r) /\ ~(GiveUp(r) /\ b \in blobs)
    <3>1. /\ at[r] = "write" /\ blobs' = blobs \cup {Wanted(r)}
          /\ left' = left \cup {c \in {Wanted(r)} : Untended(c)}
      BY <2>5 DEF Drop
    <3>2. CASE b = Wanted(r)
      <4>1. ~Untended(b)
        BY <3>1, <3>2
      <4>2. References(b) # {} /\ (gcAt = "purged" => References(b) \ gc # {})
        BY <4>1 DEF Untended
      <4> QED BY <2>1, <4>2 DEF References
    <3>3. CASE b # Wanted(r)
      <4>1. b \in blobs \ left /\ ~Owes(r, b)
        BY <3>1, <3>3 DEF Owes
      <4>2. Owed(b) => Owed(b)'
        BY <2>1, <4>1, OwedByOthers
      <4> QED BY <1>0, <2>1, <4>1, <4>2 DEF References
    <3> QED BY <3>2, <3>3
  <2>6. ReclaimPrior(r) \/ CountPrior(r) => b \in blobs
    BY DEF ReclaimPrior, CountPrior
  <2> QED BY <1>4, <2>2, <2>3, <2>4, <2>5, <2>6
<1>7. CASE \/ \E r \in Requests : RenderEnds(r)
           \/ \E spec \in Specs : Redefine(spec)
           \/ \E f \in Files : Delete(f)
           \/ RcDelete \/ (\E c \in blobs : RcFind(c))
           \/ UNCHANGED vars
  <2>1. UNCHANGED <<row, request, left, gcAt, gc, gcVariants, gcBlob>> /\ b \in blobs
    BY <1>7 DEF RenderEnds, Redefine, Delete, RcDelete, RcFind, vars
  <2> QED BY <1>0, <2>1 DEF References, Owed, Owes, Wanted, Supersedes, Superseded
<1>8. ASSUME NEW k \in Keys, NEW expired \in SUBSET Files, GcCollect(k, expired) PROVE Kept(b)'
  BY <1>0, <1>8 DEF GcCollect, References, Owed, Owes, Wanted, Supersedes, Superseded
<1>9. ASSUME GcPurge PROVE Kept(b)'
  <2>1. /\ UNCHANGED <<row, blobs, request, gc, gcVariants>> /\ b \in Blobs \ left
        /\ b \in gcVariants \/ References(b) = {} \/ References(b) \ gc # {}
    BY <1>9 DEF GcPurge
  <2>2. References(b) \ gc # {} \/ Owed(b) \/ b \in gcVariants
    BY <1>0, <2>1
  <2> QED BY <1>0, <2>1, <2>2 DEF References, Owed, Owes, Wanted, Supersedes, Superseded
<1>10. ASSUME NEW c \in gcVariants, GcCount(c) PROVE Kept(b)'
  <2>1. /\ UNCHANGED <<row, blobs, request, gc, gcAt, left>>
        /\ gcBlob = NoBlob /\ gcVariants' = gcVariants \ {c}
        /\ gcBlob' = IF References(c) \ gc = {} THEN c ELSE NoBlob
    BY <1>10 DEF GcCount
  <2>2. b # NoBlob
    BY <2>1, NoneAssumption DEF Blobs
  <2> QED BY <1>0, <2>1, <2>2 DEF References, Owed, Owes, Wanted, Supersedes, Superseded
<1>11. ASSUME GcReclaim PROVE Kept(b)'
  BY <1>0, <1>11 DEF GcReclaim, References, Owed, Owes, Wanted, Supersedes, Superseded
<1>12. ASSUME GcCommit PROVE Kept(b)'
  <2>1. /\ gcAt = "purged" /\ gcVariants = {} /\ gcBlob = NoBlob /\ gcAt' = "idle"
        /\ row' = [f \in Files |-> IF f \in gc THEN NoSpec ELSE row[f]]
        /\ UNCHANGED <<blobs, request, left>>
    BY <1>12 DEF GcCommit, GcStops
  <2>2. b # NoBlob
    BY <2>1, NoneAssumption DEF Blobs
  <2>3. References(b)' = References(b) \ gc
    BY <2>1 DEF References
  <2> QED BY <1>0, <2>1, <2>2, <2>3 DEF Owed, Owes, Wanted, Supersedes, Superseded
<1>13. ASSUME GcAborts PROVE Kept(b)'
  BY <1>0, <1>13 DEF GcAborts, GcStops, References, Owed, Owes, Wanted, Supersedes, Superseded
<1> QED
  BY <1>1, <1>2, <1>3, <1>4, <1>7, <1>8, <1>9, <1>10, <1>11, <1>12, <1>13
  DEF Next, Proceed, Collect

-----------------------------------------------------------------------------
LEMMA AloneStep ==
  ASSUME "LoneCleaner" \in Assumed
  PROVE  TypeInv /\ GcInv /\ AloneInv /\ [Next]_vars => AloneInv'
<1> SUFFICES ASSUME GcInv, AloneInv, [Next]_vars PROVE AloneInv'
  OBVIOUS
<1> USE DEF GcInv, AloneInv, store, request, others, collector
<1>1. CASE \/ \E r \in Requests :
                \/ Proceed(r) \/ Acquire(r) \/ Upsert(r) \/ Drop(r) \/ RenderEnds(r)
                \/ \E f \in Files : Begin(r, f)
           \/ \E spec \in Specs : Redefine(spec)
           \/ \E f \in Files : Delete(f)
           \/ UNCHANGED vars
  BY <1>1 DEF Proceed, Acquire, Upsert, Drop, RenderEnds, Begin, FindPolicy, Lookup,
       ReadOriginal, FindPrior, WriteBlob, CountPrior, ReclaimPrior, Open, Fail, Redefine,
       Delete, vars
<1>2. CASE \/ \E k \in Keys, expired \in SUBSET Files : GcCollect(k, expired)
           \/ RcDelete \/ \E b \in blobs : RcFind(b)
  BY <1>2 DEF GcCollect, RcDelete, RcFind
<1>3. CASE Collect \/ GcAborts
  BY <1>3 DEF Collect, GcAborts, GcStops, GcPurge, GcCount, GcReclaim, GcCommit
<1> QED BY <1>1, <1>2, <1>3 DEF Next

(* What the others do to the rows of a blob that is superseded: nothing. *)
LEMMA ReclaimStep ==
  ASSUME "QuietCatalog" \in Assumed
  PROVE  TypeInv /\ GcInv /\ QuietInv /\ ReclaimInv /\ [Next]_vars => ReclaimInv'
<1> SUFFICES ASSUME TypeInv, GcInv, QuietInv, ReclaimInv, [Next]_vars,
                    NEW q \in Requests, at'[q] = "reclaim"
             PROVE  prior'[q] \notin {NoSpec, want'[q]} /\ References(Superseded(q))' = {}
  BY DEF ReclaimInv
<1> DEFINE Safe == prior[q] \notin {NoSpec, want[q]} /\ References(Superseded(q)) = {}
<1>0. at[q] = "reclaim" => Safe
  BY DEF ReclaimInv
<1> USE DEF TypeInv, TypeOK, Goto, Leave, Rendered, store, request, others, collector
<1>1. ASSUME NEW r \in Requests,
             \/ FindPolicy(r) \/ Lookup(r) \/ ReadOriginal(r) \/ FindPrior(r) \/ WriteBlob(r)
             \/ ReclaimPrior(r) \/ Open(r) \/ Fail(r) \/ Acquire(r) \/ Drop(r) \/ RenderEnds(r)
             \/ \E f \in Files : Begin(r, f)
      PROVE  Safe'
  <2>1. /\ UNCHANGED row
        /\ r = q => at'[q] # "reclaim" \/ UNCHANGED <<at, of, want, prior>>
        /\ r # q => /\ at'[q] = at[q] /\ of'[q] = of[q]
                    /\ want'[q] = want[q] /\ prior'[q] = prior[q]
    BY <1>1 DEF FindPolicy, Lookup, ReadOriginal, FindPrior, WriteBlob, ReclaimPrior, Open,
         Fail, Acquire, Drop, RenderEnds, Begin
  <2> QED BY <1>0, <2>1 DEF References, Superseded
<1>2. ASSUME NEW r \in Requests, CountPrior(r) PROVE Safe'
  BY <1>0, <1>2 DEF CountPrior, Supersedes, References, Superseded
<1>3. ASSUME NEW r \in Requests, Upsert(r) PROVE Safe'
  <2>1. /\ q # r /\ at[q] = "reclaim"
        /\ at'[q] = at[q] /\ of'[q] = of[q] /\ want'[q] = want[q] /\ prior'[q] = prior[q]
        /\ at[r] = "upsert"
        /\ row' = row \/ row' = [row EXCEPT ![of[r]] = want[r]]
    BY <1>3 DEF Upsert
  <2>2. want[r] = preset /\ want[q] = preset
    BY <2>1 DEF QuietInv
  <2> QED BY <1>0, <2>1, <2>2 DEF References, Superseded
<1>4. ASSUME NEW spec \in Specs, Redefine(spec) PROVE Safe'
  BY <1>0, <1>4 DEF Redefine, References, Superseded
<1>5. ASSUME GcCommit PROVE Safe'
  BY <1>0, <1>5 DEF GcCommit, References, Superseded
<1>6. CASE \/ \E f \in Files : Delete(f)
           \/ \E k \in Keys, expired \in SUBSET Files : GcCollect(k, expired)
           \/ GcPurge \/ GcReclaim \/ (\E b \in gcVariants : GcCount(b))
           \/ GcAborts \/ RcDelete \/ (\E b \in blobs : RcFind(b))
           \/ UNCHANGED vars
  <2>1. UNCHANGED <<row, request>>
    BY <1>6 DEF Delete, GcCollect, GcPurge, GcReclaim, GcCount, GcAborts, RcDelete, RcFind, vars
  <2> QED BY <1>0, <2>1 DEF References, Superseded
<1> QED BY <1>1, <1>2, <1>3, <1>4, <1>5, <1>6 DEF Next, Proceed, Collect

(* A request never deletes the blob another one asks for. *)
LEMMA ReclaimsOthers ==
  ASSUME TypeInv, QuietInv, ReclaimInv, NEW r \in Requests, at[r] = "reclaim",
         NEW q \in Requests, at[q] \notin {"idle", "found"}
  PROVE  Superseded(r) # Wanted(q)
BY DEF QuietInv, ReclaimInv, Superseded, Wanted

LEMMA WrittenStep ==
  ASSUME {"QuietCatalog", "PromptUpserts", "LoneCleaner"} \subseteq Assumed
  PROVE  /\ TypeInv /\ GcInv /\ QuietInv /\ AloneInv /\ ReclaimInv /\ WrittenInv
         /\ [Next]_vars
         => WrittenInv'
<1> SUFFICES ASSUME TypeInv, GcInv, QuietInv, AloneInv, ReclaimInv, WrittenInv, [Next]_vars,
                    NEW q \in Requests, at'[q] = "upsert",
                    Wanted(q)' \in gcVariants' \cup {gcBlob', rcBlob'}
             PROVE  Wanted(q)' \in blobs'
  BY DEF WrittenInv
<1>0. at[q] = "upsert" /\ Wanted(q) \in gcVariants \cup {gcBlob, rcBlob} => Wanted(q) \in blobs
  BY DEF WrittenInv
<1>w. at[q] = "upsert" => Wanted(q) # NoBlob
  BY KeyAssumption, NoneAssumption DEF TypeInv, TypeOK, Wanted
<1> USE DEF TypeInv, TypeOK, Goto, Leave, Rendered, store, request, others, collector
<1>1. ASSUME NEW r \in Requests,
             \/ FindPolicy(r) \/ Lookup(r) \/ ReadOriginal(r) \/ FindPrior(r) \/ CountPrior(r)
             \/ Open(r) \/ Fail(r) \/ Acquire(r) \/ Upsert(r) \/ Drop(r) \/ RenderEnds(r)
             \/ \E f \in Files : Begin(r, f)
      PROVE  Wanted(q)' \in blobs'
  <2>1. /\ blobs \subseteq blobs' /\ UNCHANGED collector
        /\ at[q] = "upsert" /\ of'[q] = of[q] /\ want'[q] = want[q]
    BY <1>1 DEF FindPolicy, Lookup, ReadOriginal, FindPrior, CountPrior, Open, Fail, Acquire,
         Upsert, Drop, RenderEnds, Begin
  <2> QED BY <1>0, <2>1 DEF Wanted
<1>2. ASSUME NEW r \in Requests, WriteBlob(r) PROVE Wanted(q)' \in blobs'
  BY <1>0, <1>2 DEF WriteBlob, Wanted
<1>3. ASSUME NEW r \in Requests, ReclaimPrior(r) PROVE Wanted(q)' \in blobs'
  <2>1. /\ at[r] = "reclaim" /\ at[q] = "upsert"
        /\ blobs \ {Superseded(r)} \subseteq blobs'
        /\ UNCHANGED <<of, want, collector>>
    BY <1>3 DEF ReclaimPrior
  <2>2. Wanted(q) \in blobs
    BY <1>0, <2>1 DEF Wanted
  <2> QED BY <2>1, <2>2, ReclaimsOthers DEF Wanted
<1>4. ASSUME NEW spec \in Specs, Redefine(spec) PROVE Wanted(q)' \in blobs'
  BY <1>0, <1>4 DEF Redefine, Wanted
<1>5. ASSUME NEW f \in Files, Delete(f) PROVE Wanted(q)' \in blobs'
  BY <1>0, <1>5 DEF Delete, Wanted
<1>6. ASSUME NEW k \in Keys, NEW expired \in SUBSET Files, GcCollect(k, expired)
      PROVE  Wanted(q)' \in blobs'
  BY <1>6 DEF GcCollect
<1>7. ASSUME GcPurge \/ \E b \in gcVariants : GcCount(b) PROVE Wanted(q)' \in blobs'
  <2>1. /\ at[q] = "upsert" /\ Wanted(q)' = Wanted(q) /\ UNCHANGED <<blobs, rcBlob>>
        /\ gcVariants' \cup {gcBlob'} \subseteq gcVariants \cup {gcBlob, NoBlob}
    BY <1>7 DEF GcPurge, GcCount, Wanted
  <2> QED BY <1>0, <1>w, <2>1
<1>8. ASSUME GcReclaim PROVE Wanted(q)' \in blobs'
  <2>1. /\ at[q] = "upsert" /\ gcBlob # NoBlob /\ gcBlob' = NoBlob
        /\ blobs' = blobs \ {gcBlob}
        /\ UNCHANGED <<request, gcVariants, rcBlob>>
    BY <1>8 DEF GcReclaim
  <2>2. gcBlob \notin gcVariants /\ rcBlob = NoBlob
    BY <2>1 DEF GcInv, AloneInv
  <2>3. Wanted(q) \in gcVariants
    BY <2>1, <2>2, <1>w DEF Wanted
  <2> QED BY <1>0, <2>1, <2>2, <2>3 DEF Wanted
<1>9. ASSUME GcCommit \/ GcAborts PROVE Wanted(q)' \in blobs'
  BY <1>0, <1>9, <1>w DEF GcCommit, GcAborts, GcStops, Wanted
<1>10. ASSUME NEW b \in blobs, RcFind(b) PROVE Wanted(q)' \in blobs'
  BY <1>0, <1>10 DEF RcFind, Wanted
<1>11. ASSUME RcDelete PROVE Wanted(q)' \in blobs'
  <2>1. at[q] = "upsert" /\ rcBlob # NoBlob /\ rcBlob' = NoBlob /\ UNCHANGED <<request, gcVariants, gcBlob>>
    BY <1>11 DEF RcDelete
  <2>2. gcVariants = {} /\ gcBlob = NoBlob
    BY <2>1 DEF GcInv, AloneInv
  <2> QED BY <2>1, <2>2, <1>w DEF Wanted
<1>12. CASE UNCHANGED vars
  BY <1>0, <1>12 DEF vars, Wanted
<1> QED
  BY <1>1, <1>2, <1>3, <1>4, <1>5, <1>6, <1>7, <1>8, <1>9, <1>10, <1>11, <1>12
  DEF Next, Proceed, Collect

LEMMA DoomedStep ==
  ASSUME {"QuietCatalog", "PromptUpserts", "LoneCleaner"} \subseteq Assumed
  PROVE  /\ TypeInv /\ GcInv /\ AloneInv /\ ReclaimInv /\ WrittenInv /\ DoomedInv
         /\ [Next]_vars
         => DoomedInv'
<1> SUFFICES ASSUME TypeInv, GcInv, AloneInv, ReclaimInv, WrittenInv, DoomedInv, [Next]_vars
             PROVE  DoomedInv'
  OBVIOUS
<1> USE DEF TypeInv, TypeOK, Goto, Leave, Rendered, store, request, others, collector
<1>1. ASSUME NEW r \in Requests,
             \/ FindPolicy(r) \/ Lookup(r) \/ ReadOriginal(r) \/ FindPrior(r) \/ WriteBlob(r)
             \/ CountPrior(r) \/ Open(r) \/ Fail(r) \/ Acquire(r) \/ Drop(r) \/ RenderEnds(r)
             \/ \E f \in Files : Begin(r, f)
      PROVE  DoomedInv'
  <2>1. UNCHANGED <<row, collector>> /\ blobs \subseteq blobs'
    BY <1>1 DEF FindPolicy, Lookup, ReadOriginal, FindPrior, WriteBlob, CountPrior, Open,
         Fail, Acquire, Drop, RenderEnds, Begin
  <2> QED BY <2>1 DEF DoomedInv, References
<1>2. ASSUME NEW r \in Requests, Upsert(r) PROVE DoomedInv'
  <2>1. /\ at[r] = "upsert" /\ UNCHANGED <<blobs, collector>>
        /\ row' = row \/ row' = [row EXCEPT ![of[r]] = want[r]]
    BY <1>2 DEF Upsert
  <2>2. \A b \in {gcBlob, rcBlob} : b = Wanted(r) => b \in blobs
    BY <2>1 DEF WrittenInv
  <2>3. \A f \in Files : row'[f] = row[f] \/ <<Key[f], row'[f]>> = Wanted(r)
    BY <2>1 DEF Wanted
  <2>4. (rcBlob # NoBlob /\ References(rcBlob) # {} => rcBlob \in blobs)'
    BY <2>1, <2>2, <2>3 DEF DoomedInv, References
  <2>5. (gcBlob # NoBlob /\ References(gcBlob) \ gc # {} => gcBlob \in blobs)'
    BY <2>1, <2>2, <2>3 DEF DoomedInv, References
  <2> QED BY <2>4, <2>5 DEF DoomedInv
<1>3. ASSUME NEW r \in Requests, ReclaimPrior(r) PROVE DoomedInv'
  <2>1. /\ References(Superseded(r)) = {} /\ blobs \ {Superseded(r)} \subseteq blobs'
        /\ UNCHANGED <<row, collector>>
    BY <1>3 DEF ReclaimPrior, ReclaimInv
  <2> QED BY <2>1 DEF DoomedInv, References
<1>4. CASE \/ \E spec \in Specs : Redefine(spec)
           \/ \E f \in Files : Delete(f)
           \/ GcPurge \/ UNCHANGED vars
  <2>1. UNCHANGED <<store, gc, gcBlob, rcBlob>>
    BY <1>4 DEF Redefine, Delete, GcPurge, vars
  <2> QED BY <2>1 DEF DoomedInv, References
<1>5. ASSUME NEW k \in Keys, NEW expired \in SUBSET Files, GcCollect(k, expired) PROVE DoomedInv'
  BY <1>5 DEF GcCollect, GcInv, DoomedInv
<1>6. ASSUME NEW b \in gcVariants, GcCount(b) PROVE DoomedInv'
  <2>1. /\ UNCHANGED <<store, gc, rcBlob>>
        /\ gcBlob' = IF References(b) \ gc = {} THEN b ELSE NoBlob
    BY <1>6 DEF GcCount
  <2> QED BY <2>1 DEF DoomedInv, References
<1>7. ASSUME GcReclaim \/ GcCommit \/ GcAborts PROVE DoomedInv'
  <2>1. rcBlob = NoBlob
    BY <1>7 DEF GcReclaim, GcCommit, GcAborts, AloneInv, GcInv
  <2>2. rcBlob' = NoBlob /\ gcBlob' = NoBlob
    BY <1>7, <2>1 DEF GcReclaim, GcCommit, GcAborts, GcStops
  <2> QED BY <2>2 DEF DoomedInv
<1>8. ASSUME NEW b \in blobs, RcFind(b) PROVE DoomedInv'
  BY <1>8 DEF RcFind, DoomedInv, References
<1>9. ASSUME RcDelete PROVE DoomedInv'
  <2>1. gcBlob = NoBlob
    BY <1>9 DEF RcDelete, AloneInv, GcInv
  <2> QED BY <1>9, <2>1 DEF RcDelete, DoomedInv
<1> QED BY <1>1, <1>2, <1>3, <1>4, <1>5, <1>6, <1>7, <1>8, <1>9 DEF Next, Proceed, Collect

LEMMA RowStep ==
  ASSUME "QuietCatalog" \in Assumed
  PROVE  TypeInv /\ GcInv /\ QuietInv /\ RowInv /\ HealInv /\ [Next]_vars => RowInv'
<1> SUFFICES ASSUME TypeInv, GcInv, QuietInv, RowInv, HealInv, [Next]_vars,
                    NEW q \in Requests, Live(q)',
                    (healing[q] \/ at[q] \in {"count", "reclaim", "open"})'
             PROVE  row'[of'[q]] = want'[q]
  BY DEF RowInv
<1>0. Live(q) /\ (healing[q] \/ at[q] \in {"count", "reclaim", "open"})
        => row[of[q]] = want[q]
  BY DEF RowInv
<1> USE DEF TypeInv, TypeOK, Goto, Leave, Rendered, Live, store, request, others, collector
<1>1. ASSUME NEW r \in Requests,
             \/ FindPolicy(r) \/ Lookup(r) \/ ReadOriginal(r) \/ FindPrior(r) \/ WriteBlob(r)
             \/ Fail(r) \/ Acquire(r) \/ Drop(r) \/ RenderEnds(r)
             \/ \E f \in Files : Begin(r, f)
      PROVE  row'[of'[q]] = want'[q]
  BY <1>0, <1>1 DEF FindPolicy, Lookup, ReadOriginal, FindPrior, WriteBlob, Fail, Acquire,
       Drop, RenderEnds, Begin, HealInv, Heals, Rendering
<1>2. ASSUME NEW r \in Requests, CountPrior(r) \/ ReclaimPrior(r) \/ Open(r)
      PROVE  row'[of'[q]] = want'[q]
  BY <1>0, <1>2 DEF CountPrior, ReclaimPrior, Open
<1>3. ASSUME NEW r \in Requests, Upsert(r) PROVE row'[of'[q]] = want'[q]
  <2>1. CASE q = r
    BY <1>3, <2>1 DEF Upsert
  <2>2. CASE q # r
    <3>1. /\ at[r] = "upsert" /\ at'[q] = at[q] /\ of'[q] = of[q] /\ want'[q] = want[q]
          /\ healing'[q] = healing[q] /\ UNCHANGED file
          /\ row' = row \/ row' = [row EXCEPT ![of[r]] = want[r]]
      BY <1>3, <2>2 DEF Upsert
    <3>2. row[of[q]] = want[q]
      BY <1>0, <3>1
    <3>3. want[r] = preset /\ want[q] = preset
      BY <3>1 DEF QuietInv, HealInv, Heals, Rendering
    <3> QED BY <3>1, <3>2, <3>3
  <2> QED BY <2>1, <2>2
<1>4. ASSUME NEW f \in Files, Delete(f) PROVE row'[of'[q]] = want'[q]
  BY <1>0, <1>4 DEF Delete
<1>5. ASSUME GcCommit PROVE row'[of'[q]] = want'[q]
  BY <1>0, <1>5 DEF GcCommit, GcInv
<1>6. CASE \/ \E spec \in Specs : Redefine(spec)
           \/ \E k \in Keys, expired \in SUBSET Files : GcCollect(k, expired)
           \/ GcPurge \/ GcReclaim \/ (\E b \in gcVariants : GcCount(b))
           \/ GcAborts \/ RcDelete \/ (\E b \in blobs : RcFind(b))
           \/ UNCHANGED vars
  <2>1. UNCHANGED <<row, file, request>>
    BY <1>6 DEF Redefine, GcCollect, GcPurge, GcReclaim, GcCount, GcAborts, RcDelete, RcFind, vars
  <2> QED BY <1>0, <2>1
<1> QED BY <1>1, <1>2, <1>3, <1>4, <1>5, <1>6 DEF Next, Proceed, Collect

LEMMA HealStep ==
  ASSUME {"QuietCatalog", "PromptUpserts", "LoneCleaner"} \subseteq Assumed
  PROVE  /\ TypeInv /\ GcInv /\ QuietInv /\ ReclaimInv /\ DoomedInv /\ RowInv /\ HealInv
         /\ [Next]_vars
         => HealInv'
<1> SUFFICES ASSUME TypeInv, GcInv, QuietInv, ReclaimInv, DoomedInv, RowInv, HealInv,
                    [Next]_vars, NEW q \in Requests
             PROVE  Heals(q)'
  BY DEF HealInv
<1>0. Heals(q)
  BY DEF HealInv
<1> USE DEF TypeInv, TypeOK, Goto, Leave, Rendered, Rendering, Live, store, request, others,
      collector
(* A request that goes on, without a word on blobs or rows. *)
<1>1. ASSUME NEW r \in Requests,
             \/ FindPolicy(r) \/ Lookup(r) \/ ReadOriginal(r) \/ FindPrior(r) \/ CountPrior(r)
             \/ Fail(r) \/ Acquire(r) \/ Upsert(r) \/ Drop(r) \/ RenderEnds(r)
             \/ \E f \in Files : Begin(r, f)
      PROVE  Heals(q)'
  <2>1. blobs \subseteq blobs' /\ UNCHANGED <<collector, file>>
    BY <1>1 DEF FindPolicy, Lookup, ReadOriginal, FindPrior, CountPrior, Fail, Acquire, Upsert,
         Drop, RenderEnds, Begin
  <2>2. CASE UNCHANGED <<at[q], of[q], want[q], healing[q]>>
    BY <1>0, <2>1, <2>2 DEF Heals, Wanted
  <2>3. CASE ~ UNCHANGED <<at[q], of[q], want[q], healing[q]>>
    <3>1. \/ at'[q] \in {"idle", "found", "lookup"} /\ ~healing'[q]
          \/ /\ UNCHANGED <<of[q], want[q], healing[q]>>
             /\ \/ at[q] = "lookup" /\ at'[q] \in {"open", "acquire"}
                \/ at[q] \in {"upsert", "count"} /\ at'[q] \in {"count", "reclaim", "open"}
                \/ at'[q] \in {"read", "render", "write"}
      BY <1>0, <1>1, <2>3 DEF FindPolicy, Lookup, ReadOriginal, FindPrior, CountPrior, Fail,
           Acquire, Upsert, Drop, RenderEnds, Begin, Heals
    <3> QED BY <1>0, <2>1, <3>1 DEF Heals, Wanted
  <2> QED BY <2>2, <2>3
<1>2. ASSUME NEW r \in Requests, WriteBlob(r) PROVE Heals(q)'
  BY <1>0, <1>2 DEF WriteBlob, Heals, Wanted
<1>3. ASSUME NEW r \in Requests, ReclaimPrior(r) PROVE Heals(q)'
  <2>1. /\ at[r] = "reclaim" /\ blobs \ {Superseded(r)} \subseteq blobs'
        /\ at' = [at EXCEPT ![r] = "open"]
        /\ UNCHANGED <<of, want, healing, file, collector>>
    BY <1>3 DEF ReclaimPrior
  <2>2. healing[q] => Superseded(r) # Wanted(q)
    BY <1>0, <2>1, ReclaimsOthers DEF Heals
  <2> QED BY <1>0, <2>1, <2>2 DEF Heals, Wanted
<1>4. ASSUME NEW r \in Requests, Open(r) PROVE Heals(q)'
  <2>1. UNCHANGED <<store, collector, file>> /\ at[r] = "open"
    BY <1>4 DEF Open
  <2>2. CASE q # r
    BY <1>0, <1>4, <2>1, <2>2 DEF Open, Heals, Wanted
  <2>3. CASE q = r /\ at'[r] = "acquire"
    <3>1. /\ Wanted(q) \notin blobs /\ ~healing[q] /\ healing'[q]
          /\ UNCHANGED <<of, want>>
      BY <1>4, <2>3 DEF Open
    <3>2. ASSUME Live(q) PROVE Wanted(q) \notin {gcBlob, rcBlob}
      <4>1. of[q] \in References(Wanted(q)) \ gc
        BY <2>1, <2>3, <3>2, NoneAssumption DEF RowInv, References, Wanted, GcInv
      <4>2. Wanted(q) # NoBlob
        BY <2>1, <2>3, KeyAssumption, NoneAssumption DEF Wanted
      <4> QED BY <3>1, <4>1, <4>2 DEF DoomedInv
    <3> QED BY <2>1, <2>3, <3>1, <3>2 DEF Heals, Wanted
  <2>4. CASE q = r /\ at'[r] = "missing"
    BY <1>0, <1>4, <2>1, <2>4 DEF Open, Heals, Wanted
  <2>5. CASE q = r /\ at'[r] = "idle"
    BY <1>4, <2>5 DEF Open, Heals
  <2> QED BY <1>4, <2>2, <2>3, <2>4, <2>5 DEF Open
<1>5. ASSUME NEW f \in Files, Delete(f) PROVE Heals(q)'
  BY <1>0, <1>5 DEF Delete, Heals, Wanted
<1>6. ASSUME NEW b \in gcVariants, GcCount(b) PROVE Heals(q)'
  <2>1. /\ UNCHANGED <<blobs, request, file, rcBlob>>
        /\ gcBlob' = IF References(b) \ gc = {} THEN b ELSE NoBlob
    BY <1>6 DEF GcCount
  <2>2. ASSUME Live(q), healing[q] PROVE Wanted(q) # gcBlob'
    <3>1. Wanted(q) # NoBlob
      BY <1>0, <2>2, KeyAssumption, NoneAssumption DEF Heals, Wanted
    <3>2. of[q] \in References(Wanted(q)) \ gc
      BY <1>0, <2>2, NoneAssumption DEF Heals, RowInv, References, Wanted, GcInv
    <3> QED BY <2>1, <3>1, <3>2
  <2> QED BY <1>0, <2>1, <2>2 DEF Heals, Wanted
<1>7. ASSUME GcReclaim \/ RcDelete PROVE Heals(q)'
  <2>1. /\ UNCHANGED <<request, file>>
        /\ blobs \ {gcBlob, rcBlob} \subseteq blobs'
        /\ {gcBlob', rcBlob'} \subseteq {gcBlob, rcBlob, NoBlob}
    BY <1>7 DEF GcReclaim, RcDelete
  <2>2. healing[q] => Wanted(q) # NoBlob
    BY <1>0, KeyAssumption, NoneAssumption DEF Heals, Wanted
  <2> QED BY <1>0, <2>1, <2>2 DEF Heals, Wanted
<1>8. ASSUME GcCommit \/ GcAborts PROVE Heals(q)'
  <2>1. /\ UNCHANGED <<request, blobs, rcBlob>> /\ gcBlob' = NoBlob
        /\ \A f \in Files : file'[f] = "live" => file[f] = "live"
    BY <1>8 DEF GcCommit, GcAborts, GcStops
  <2>2. healing[q] => Wanted(q) # NoBlob /\ of[q] \in Files
    BY <1>0, KeyAssumption, NoneAssumption DEF Heals, Wanted
  <2> QED BY <1>0, <2>1, <2>2 DEF Heals, Wanted
<1>9. ASSUME NEW b \in blobs, RcFind(b) PROVE Heals(q)'
  <2>1. /\ UNCHANGED <<store, request, file, gcBlob>>
        /\ References(b) = {} /\ rcBlob' = b
    BY <1>9 DEF RcFind
  <2>2. ASSUME Live(q), healing[q] PROVE of[q] \in References(Wanted(q))
    BY <1>0, <2>2, NoneAssumption DEF Heals, RowInv, References, Wanted
  <2> QED BY <1>0, <2>1, <2>2 DEF Heals, Wanted
<1>10. CASE \/ \E spec \in Specs : Redefine(spec)
            \/ \E k \in Keys, expired \in SUBSET Files : GcCollect(k, expired)
            \/ GcPurge \/ UNCHANGED vars
  <2>1. UNCHANGED <<blobs, file, request, gcBlob, rcBlob>>
    BY <1>10 DEF Redefine, GcCollect, GcPurge, vars
  <2> QED BY <1>0, <2>1 DEF Heals, Wanted
<1> QED
  BY <1>1, <1>2, <1>3, <1>4, <1>5, <1>6, <1>7, <1>8, <1>9, <1>10 DEF Next, Proceed, Collect

-----------------------------------------------------------------------------
(* The theorems. *)

(* Every variable of every request, of the collector and of reconcile keeps    *)
(* its type.                                                                   *)
THEOREM VariantsTypeCorrect == Spec => []TypeOK
<1>1. TypeInv => TypeOK
  BY DEF TypeInv
<1> QED BY <1>1, TypeInit, TypeStep, PTL DEF Spec

LEMMA LeakInit == Init => GcInv /\ QuietInv /\ PriorInv /\ LeakInv
BY NoneAssumption DEF Init, GcInv, QuietInv, PriorInv, LeakInv

(* While no preset is redefined under a request, a blob of a variant is never  *)
(* left without a row, but one a request or a run gave up as NothingLeaks says *)
(* and nobody made a row of since: what render_and_cache counts, run_gc_inner  *)
(* counts and each deletes adds up, however many requests and files share it.  *)
THEOREM NothingIsLeaked ==
  ASSUME "QuietCatalog" \in Assumed PROVE Spec => []NothingLeaks
<1> DEFINE I == TypeInv /\ GcInv /\ QuietInv /\ PriorInv /\ LeakInv
<1>1. Init => I
  BY TypeInit, LeakInit
<1>2. I /\ [Next]_vars => I'
  BY TypeStep, GcStep, QuietStep, PriorStep, LeakStep
<1>3. I => NothingLeaks
  BY DEF LeakInv, NothingLeaks, Owed, Owes
<1> QED BY <1>1, <1>2, <1>3, PTL DEF Spec

LEMMA HealInit ==
  Init => AloneInv /\ ReclaimInv /\ WrittenInv /\ DoomedInv /\ RowInv /\ HealInv
BY DEF Init, AloneInv, ReclaimInv, WrittenInv, DoomedInv, RowInv, HealInv, Heals, Live

(* One rendering heals: serve_variant answers 404 for a live file under none   *)
(* of the interleavings of requests, collector and reconcile that the three    *)
(* assumptions allow.                                                          *)
THEOREM OneRenderingHeals ==
  ASSUME {"QuietCatalog", "PromptUpserts", "LoneCleaner"} \subseteq Assumed
  PROVE  Spec => []HealSuffices
<1> DEFINE I == /\ TypeInv /\ GcInv /\ QuietInv
                /\ AloneInv /\ ReclaimInv /\ WrittenInv /\ DoomedInv /\ RowInv /\ HealInv
<1>1. Init => I
  BY TypeInit, LeakInit, HealInit
<1>2. I /\ [Next]_vars => I'
  BY TypeStep, GcStep, QuietStep, AloneStep, ReclaimStep, WrittenStep, DoomedStep, RowStep,
     HealStep
<1>3. I => HealSuffices
  BY DEF HealInv, Heals, HealSuffices, Live
<1> QED BY <1>1, <1>2, <1>3, PTL DEF Spec

-----------------------------------------------------------------------------
(* SIZES *)

-----------------------------------------------------------------------------
(* Arithmetic. *)

LEMMA DivFacts ==
  ASSUME NEW a \in Nat, NEW b \in Nat \ {0}
  PROVE  a \div b \in Nat /\ b * (a \div b) <= a /\ a < b * (a \div b) + b
OBVIOUS

LEMMA Ordered ==
  ASSUME NEW a \in Nat, NEW b \in Nat, NEW c \in Nat, a <= b
  PROVE  a * c \in Nat /\ b * c \in Nat /\ a * c <= b * c
OBVIOUS

LEMMA Commuted ==
  ASSUME NEW a \in Nat, NEW b \in Nat
  PROVE  a * b = b * a /\ a * b \in Nat
OBVIOUS

LEMMA Distribute ==
  ASSUME NEW a \in Nat, NEW b \in Nat, NEW c \in Nat
  PROVE  a * (b + c) = a * b + a * c
OBVIOUS

LEMMA DistributeLeft ==
  ASSUME NEW a \in Nat, NEW b \in Nat, NEW c \in Nat
  PROVE  (b + c) * a = b * a + c * a
OBVIOUS

(* A quotient is at most b if the dividend is at most b and a half times the
   divisor. *)
LEMMA RoundedBelow ==
  ASSUME NEW n \in Nat, NEW d \in Nat \ {0}, NEW b \in Nat, n <= b * d
  PROVE  Rounded(n, d) \in 0..b
<1> DEFINE q == Rounded(n, d)
<1>1. q \in Nat /\ (2 * d) * q <= 2 * n + d
  BY DivFacts, 2 * n + d \in Nat, 2 * d \in Nat \ {0} DEF Rounded
<1> HIDE DEF q
<1>2. (2 * d) * q = 2 * (q * d)
  BY <1>1
<1>3. ASSUME q >= b + 1 PROVE FALSE
  <2>1. (b + 1) * d <= q * d /\ q * d \in Nat
    BY <1>1, <1>3, Ordered, b + 1 \in Nat
  <2>2. (b + 1) * d = b * d + d /\ b * d \in Nat
    BY DistributeLeft, Commuted
  <2> QED BY <1>1, <1>2, <2>1, <2>2
<1> QED BY <1>1, <1>3 DEF q

-----------------------------------------------------------------------------
(* What the library's resize returns stays within its box. *)
LEMMA WithinTheBox ==
  ASSUME NEW i \in [w : Nat, h : Nat], NEW w \in Sides, NEW h \in Sides
  PROVE  Within(i, w, h) \in [w : 1..w, h : 1..h]
<1>0. w \in Nat /\ w >= 1 /\ h \in Nat /\ h >= 1 /\ i.w \in Nat /\ i.h \in Nat
  BY MaxOutputDimAssumption DEF Sides
<1>1. CASE i.w = 0 \/ i.h = 0
  BY <1>0, <1>1 DEF Within
<1>2. CASE i.w # 0 /\ i.h # 0 /\ w * i.h <= h * i.w
  <2>1. Rounded(i.h * w, i.w) \in 0..h
    BY <1>0, <1>2, RoundedBelow, Commuted
  <2> QED BY <1>0, <1>2, <2>1 DEF Within, AtLeastOne
<1>3. CASE i.w # 0 /\ i.h # 0 /\ ~(w * i.h <= h * i.w)
  <2>1. h * i.w <= w * i.h
    BY <1>0, <1>3, Commuted
  <2>2. Rounded(i.w * h, i.h) \in 0..w
    BY <1>0, <1>3, <2>1, RoundedBelow, Commuted
  <2> QED BY <1>0, <1>3, <2>2 DEF Within, AtLeastOne
<1> QED BY <1>1, <1>2, <1>3

LEMMA SizeBounded ==
  ASSUME NEW i \in Images, NEW p \in Presets, Valid(p)
  PROVE  Size(i, p) \in [w : Sides, h : Sides]
<1>0. i \in [w : Nat, h : Nat] /\ MaxOutputDim \in Sides
      /\ p.w \in Sides \cup {None} /\ p.h \in Sides \cup {None}
      /\ (p.w # None \/ p.h # None)
  BY ImagesAssumption, MaxOutputDimAssumption DEF Valid, Sides
<1>1. \A w, h \in Sides : Within(i, w, h) \in [w : Sides, h : Sides]
  <2> TAKE w, h \in Sides
  <2>1. Within(i, w, h) \in [w : 1..w, h : 1..h]
    BY <1>0, WithinTheBox
  <2>2. 1..w \subseteq Sides /\ 1..h \subseteq Sides
    BY MaxOutputDimAssumption DEF Sides
  <2> QED BY <2>1, <2>2
<1> QED BY <1>0, <1>1 DEF Size

-----------------------------------------------------------------------------
(* One axis of n pixels is cropped to the target's a for an other axis of m
   pixels and b: the crop is c. *)
LEMMA AxisFacts ==
  ASSUME NEW n \in Nat \ {0}, NEW m \in Nat \ {0}, NEW a \in Nat \ {0}, NEW b \in Nat \ {0},
         NEW c, c = Clamp((m * a) \div b, 1, n), m * a <= n * b
  PROVE  /\ c \in 1..n
         /\ Apart(c * b, m * a) < b
         /\ c * b <= Larger(c * m, a * b)
         /\ a * m <= Larger(c * m, a * b)
<1> DEFINE q == (m * a) \div b
           P == m * a
           C == c * b
<1>1. q \in Nat /\ b * q <= P /\ P < b * q + b /\ P \in Nat
  BY DivFacts, Commuted
<1>2. q <= n
  <2>1. ASSUME q >= n + 1 PROVE FALSE
    <3>1. (n + 1) * b <= q * b /\ q * b = b * q
      BY <1>1, <2>1, Ordered, Commuted, n + 1 \in Nat
    <3>2. (n + 1) * b = n * b + b /\ n * b \in Nat
      BY DistributeLeft, Commuted
    <3> HIDE DEF q
    <3> QED BY <1>1, <3>1, <3>2
  <2> QED BY <1>1, <2>1
<1>3. c = IF q = 0 THEN 1 ELSE q
  BY <1>1, <1>2 DEF Clamp
<1>4. c \in 1..n
  BY <1>1, <1>2, <1>3
<1>5. C \in Nat /\ C = b * c /\ c * m \in Nat /\ a * b \in Nat /\ a * m = P
  BY <1>4, Commuted
<1>6. Apart(C, P) < b
  <2>1. CASE q = 0
    <3>1. C = b /\ P < b
      BY <1>1, <1>3, <1>5, <2>1
    <3>2. P # 0
      OBVIOUS
    <3> HIDE DEF C, P
    <3> QED BY <1>1, <1>5, <3>1, <3>2 DEF Apart
  <2>2. CASE q # 0
    <3>1. C <= P /\ P < C + b
      BY <1>1, <1>3, <1>5, <2>2
    <3> HIDE DEF C, P
    <3> QED BY <1>1, <1>5, <3>1 DEF Apart
  <2> QED BY <2>1, <2>2
(* The crop is no larger than the output along its axis, or no smaller along
   the other. *)
<1>7. c * b <= c * m \/ c * b <= a * b
  <2>1. CASE b <= m
    BY <1>4, <2>1, Ordered, Commuted
  <2>2. CASE c <= a
    BY <1>4, <2>2, Ordered
  <2>3. ASSUME ~(b <= m), ~(c <= a) PROVE FALSE
    <3>1. c = q
      BY <1>1, <1>3, <1>4, <2>3
    <3>2. b * c <= P
      BY <1>1, <3>1
    <3>3. P <= b * a /\ b * (a + 1) <= b * c /\ b * (a + 1) = b * a + b
      BY <1>4, <2>3, Ordered, Commuted, Distribute, a + 1 \in Nat, m <= b, a + 1 <= c
    <3> HIDE DEF P
    <3>4. b * a \in Nat /\ b * c \in Nat
      BY <1>4, Commuted
    <3> QED BY <1>1, <3>2, <3>3, <3>4
  <2> QED BY <2>1, <2>2, <2>3
<1>8. a * m <= c * m \/ a * m <= a * b
  <2>1. CASE a <= c
    BY <1>4, <2>1, Ordered
  <2>2. CASE m <= b
    BY <2>2, Ordered, Commuted
  <2>3. ASSUME ~(a <= c), ~(m <= b) PROVE FALSE
    <3>1. q <= c
      BY <1>1, <1>3
    <3>2. b * q <= b * c /\ b * (c + 1) = b * c + b /\ b * (c + 1) <= b * a /\ b * a <= P
      BY <1>1, <1>4, <2>3, <3>1, Ordered, Commuted, Distribute, c + 1 \in Nat, c + 1 <= a, b <= m
    <3>3. b * a \in Nat /\ b * c \in Nat /\ b * q \in Nat
      BY <1>1, <1>4, Commuted
    <3> HIDE DEF P, q
    <3> QED BY <1>1, <3>2, <3>3
  <2> QED BY <2>1, <2>2, <2>3
<1> QED BY <1>4, <1>5, <1>6, <1>7, <1>8 DEF Larger

(* The crop of `cover` for one image and preset. *)
LEMMA CroppedSizeFacts ==
  ASSUME NEW i \in [w : Nat, h : Nat], i.w # 0, i.h # 0,
         NEW w \in Sides, NEW h \in Sides,
         NEW c, c = CroppedSize(i, w, h)
  PROVE  /\ c = [w |-> c.w, h |-> c.h] /\ c.w \in 1..i.w /\ c.h \in 1..i.h
         /\ \/ c.h = i.h /\ Apart(c.w * h, c.h * w) < h
            \/ c.w = i.w /\ Apart(c.w * h, c.h * w) < w
         /\ c.w * h <= Larger(c.w * c.h, w * h)
         /\ w * c.h <= Larger(c.w * c.h, w * h)
<1>0. /\ i.w \in Nat \ {0} /\ i.h \in Nat \ {0} /\ w \in Nat \ {0} /\ h \in Nat \ {0}
  BY MaxOutputDimAssumption DEF Sides
<1>1. CASE i.w * h >= i.h * w
  <2> DEFINE k == Clamp((i.h * w) \div h, 1, i.w)
  <2>1. i.h * w <= i.w * h
    BY <1>0, <1>1, Commuted
  <2>2. /\ k \in 1..i.w
        /\ Apart(k * h, i.h * w) < h
        /\ k * h <= Larger(k * i.h, w * h)
        /\ w * i.h <= Larger(k * i.h, w * h)
    BY <1>0, <2>1, AxisFacts
  <2>3. c = [w |-> k, h |-> i.h]
    BY <1>1 DEF CroppedSize
  <2> HIDE DEF k
  <2> QED BY <1>0, <2>2, <2>3
<1>2. CASE ~(i.w * h >= i.h * w)
  <2> DEFINE k == Clamp((i.w * h) \div w, 1, i.h)
  <2>1. i.w * h <= i.h * w
    BY <1>0, <1>2, Commuted
  <2>2. /\ k \in 1..i.h
        /\ Apart(k * w, i.w * h) < w
        /\ k * w <= Larger(k * i.w, h * w)
        /\ h * i.w <= Larger(k * i.w, h * w)
    BY <1>0, <2>1, AxisFacts
  <2>3. c = [w |-> i.w, h |-> k]
    BY <1>2 DEF CroppedSize
  <2> HIDE DEF k
  <2>4. k * i.w = i.w * k /\ h * w = w * h /\ h * i.w = i.w * h /\ k * w = w * k
        /\ k * w \in Nat /\ i.w * h \in Nat
    BY <1>0, <2>2, Commuted
  <2>5. Apart(i.w * h, k * w) < w
    BY <2>2, <2>4, <1>0 DEF Apart
  <2> QED BY <1>0, <2>2, <2>3, <2>4, <2>5
<1> QED BY <1>1, <1>2

(* A margin is halved, rounded down. *)
LEMMA HalfFacts ==
  ASSUME NEW n \in Nat
  PROVE  n \div 2 \in Nat /\ n \div 2 <= n /\ Apart(n \div 2, n - n \div 2) <= 1
BY DEF Apart

LEMMA CropTyped ==
  ASSUME NEW i \in Images, NEW p \in Presets, Valid(p), Crop(i, p) # None
  PROVE  Crop(i, p) \in [x : Nat, y : Nat, w : Nat, h : Nat]
<1> DEFINE c == CroppedSize(i, p.w, p.h)
<1>1. /\ i \in [w : Nat, h : Nat] /\ i.w # 0 /\ i.h # 0
      /\ p.w \in Sides /\ p.h \in Sides
      /\ Crop(i, p) = Centred(i, c)
  BY ImagesAssumption DEF Crop, Covers, Valid
<1>2. c.w \in 1..i.w /\ c.h \in 1..i.h
  BY <1>1, CroppedSizeFacts
<1> HIDE DEF c
<1>3. (i.w - c.w) \div 2 \in Nat /\ (i.h - c.h) \div 2 \in Nat
  BY <1>1, <1>2, HalfFacts, i.w - c.w \in Nat, i.h - c.h \in Nat
<1> QED BY <1>1, <1>2, <1>3 DEF Centred

LEMMA CropSound ==
  ASSUME NEW i \in Images, NEW p \in Presets, Valid(p), Crop(i, p) # None,
         image = i, crop = Crop(i, p), out = Size(i, p)
  PROVE  CropFits /\ CropKeepsAspect /\ ScaleStaysBounded
<1> DEFINE c == CroppedSize(i, p.w, p.h)
<1>1. /\ i \in [w : Nat, h : Nat] /\ i.w # 0 /\ i.h # 0
      /\ p.w \in Sides /\ p.h \in Sides /\ Covers(p)
      /\ crop = Centred(i, c)
  BY ImagesAssumption DEF Crop, Covers, Valid
<1>2. out = [w |-> p.w, h |-> p.h]
  BY <1>1 DEF Size, Covers
<1>3. /\ c = [w |-> c.w, h |-> c.h] /\ c.w \in 1..i.w /\ c.h \in 1..i.h
      /\ \/ c.h = i.h /\ Apart(c.w * p.h, c.h * p.w) < p.h
         \/ c.w = i.w /\ Apart(c.w * p.h, c.h * p.w) < p.w
      /\ c.w * p.h <= Larger(c.w * c.h, p.w * p.h)
      /\ p.w * c.h <= Larger(c.w * c.h, p.w * p.h)
  BY <1>1, CroppedSizeFacts
<1> HIDE DEF c
<1>4. /\ crop.w = c.w /\ crop.h = c.h
      /\ crop.x = (i.w - c.w) \div 2 /\ crop.y = (i.h - c.h) \div 2
      /\ crop = [x |-> crop.x, y |-> crop.y, w |-> crop.w, h |-> crop.h]
  BY <1>1 DEF Centred
<1>5. i.w - c.w \in Nat /\ i.h - c.h \in Nat
  BY <1>1, <1>3
<1>6. /\ crop.x \in Nat /\ crop.x <= i.w - c.w /\ Apart(crop.x, i.w - c.w - crop.x) <= 1
      /\ crop.y \in Nat /\ crop.y <= i.h - c.h /\ Apart(crop.y, i.h - c.h - crop.y) <= 1
  BY <1>4, <1>5, HalfFacts
<1>7. CropFits
  <2> DEFINE x == crop.x  y == crop.y  cw == c.w  ch == c.h
  <2>0. /\ i.w \in Nat /\ i.h \in Nat /\ cw \in Nat /\ ch \in Nat /\ x \in Nat /\ y \in Nat
        /\ x <= i.w - cw /\ y <= i.h - ch
    BY <1>1, <1>3, <1>6
  <2> HIDE DEF x, y, cw, ch
  <2>1. x + cw <= i.w /\ y + ch <= i.h
    BY <2>0
  <2>2. /\ image.w - crop.w - crop.x = i.w - c.w - crop.x
        /\ image.h - crop.h - crop.y = i.h - c.h - crop.y
    BY <1>4
  <2>3. crop.w \in 1..image.w /\ crop.h \in 1..image.h
    BY <1>3, <1>4
  <2> QED BY <1>4, <1>6, <2>1, <2>2, <2>3 DEF CropFits, x, y, cw, ch
<1> QED BY <1>2, <1>3, <1>4, <1>7 DEF CropKeepsAspect, ScaleStaysBounded

-----------------------------------------------------------------------------
(* What is cropped and rendered is what `apply_fit` computes from a valid      *)
(* preset: it stays so because a preset is replaced between renderings only.   *)
TransformInv ==
  /\ RenderTypeOK
  /\ stage = "encode" => crop = Crop(image, registered) /\ out = Size(image, registered)

LEMMA InvInit == RenderInit => TransformInv
BY DEF RenderInit, TransformInv, RenderTypeOK

LEMMA InvStep == TransformInv /\ [RenderNext]_renderVars => TransformInv'
<1> SUFFICES ASSUME TransformInv, [RenderNext]_renderVars PROVE TransformInv'
  OBVIOUS
<1> USE DEF TransformInv, RenderTypeOK
<1>1. ASSUME NEW p \in Presets, Register(p) PROVE TransformInv'
  BY <1>1 DEF Register, Valid
<1>2. ASSUME NEW i \in Images, BeginRender(i) PROVE TransformInv'
  BY <1>2, ImagesAssumption, NoSizeAssumption DEF BeginRender, Valid
<1>3. ASSUME EndRender, stage # "idle" PROVE TransformInv'
  BY <1>3 DEF EndRender, Valid
<1>4. ASSUME ReadHeader PROVE TransformInv'
  BY <1>4 DEF ReadHeader, Valid
<1>5. ASSUME Decode PROVE TransformInv'
  BY <1>5 DEF Decode, Valid
<1>6. ASSUME ApplyFit PROVE TransformInv'
  <2>1. /\ stage = "fit" /\ registered \in Presets /\ image \in Images /\ Valid(registered)
        /\ image.w <= MaxInputDim /\ image.h <= MaxInputDim
        /\ stage' = "encode" /\ registered' = registered /\ image' = image
        /\ crop' = Crop(image, registered) /\ out' = Size(image, registered)
    BY <1>6 DEF ApplyFit
  <2>2. out' \in [w : Sides, h : Sides]
    BY <2>1, SizeBounded
  <2>3. crop' # None => crop' \in [x : Nat, y : Nat, w : Nat, h : Nat]
    BY <2>1, CropTyped
  <2>4. out' # None
    BY <2>2, NoSizeAssumption DEF Sides
  <2> QED BY <2>1, <2>2, <2>3, <2>4, NoSizeAssumption DEF Valid
<1>7. CASE UNCHANGED renderVars
  BY <1>7 DEF renderVars, Valid
<1> QED BY <1>1, <1>2, <1>3, <1>4, <1>5, <1>6, <1>7 DEF RenderNext, Encode, Refuse

LEMMA InvSound == TransformInv => CoverIsSound
<1> SUFFICES ASSUME TransformInv, crop # None
             PROVE  CropFits /\ CropKeepsAspect /\ ScaleStaysBounded
  BY DEF CoverIsSound
<1>1. /\ registered \in Presets /\ image \in Images /\ Valid(registered)
      /\ crop = Crop(image, registered) /\ out = Size(image, registered)
  BY DEF TransformInv, RenderTypeOK
<1> QED BY <1>1, CropSound

(* Every rendering has sides of 1 to MAX_OUTPUT_DIM pixels, for every preset   *)
(* that `validate` accepts and every image, and `apply_fit` sees no image      *)
(* beyond the input's limits.                                                  *)
THEOREM RenderTypeCorrect == RenderSpec => []RenderTypeOK
<1>1. TransformInv => RenderTypeOK
  BY DEF TransformInv
<1> QED BY <1>1, InvInit, InvStep, PTL DEF RenderSpec

(* `cover` crops within the image, to the preset's aspect, centred, and no     *)
(* allocation exceeds the larger of the input and the output.                  *)
THEOREM CropsAreSound == RenderSpec => []CoverIsSound
BY InvInit, InvStep, InvSound, PTL DEF RenderSpec
============================================================================
