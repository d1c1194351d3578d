-------------------------- MODULE FileStoreProofs --------------------------
(***************************************************************************)
(* Proofs about FileStore, for any number of uploads, contents and         *)
(* reconcile calls: type correctness, what rows and tombstones may rely on *)
(* in each environment, that nothing is orphaned, and the refinement of    *)
(* AtomicFiles.                                                            *)
(***************************************************************************)
EXTENDS FileStore, TLAPS

-----------------------------------------------------------------------------
(* Uploads that have not inserted their row. *)
Pending(f) == up[f] \in {"idle", "written", "dropping", "ready"}

(* The lock: collector and restores exclude each other, a restore holds a   *)
(* tombstone, and the collector's pending purges are tombstones; an upload  *)
(* under way is no row's.                                                   *)
LockInv ==
  /\ \A f \in Files : Pending(f) => row[f] = "none"
  /\ gcPhase # "off" => \A f \in Files : rst[f] = "off"
  /\ \A f \in Files : rst[f] # "off" => row[f] \in Tombstone
  /\ \A f \in gcPurged : gcPhase # "off" /\ row[f] \in Tombstone

(* A file that needs the bytes under key[f]. *)
Needs(f) == HasRow(f) \/ Adopting(f)

(* What each upload stage has done so far. *)
StageInv ==
  \A f \in Files :
    /\ row[f] # "none" => up[f] = "done"
    /\ up[f] = "idle" => blob[f] = "absent"
    /\ up[f] \in {"idle", "written", "cleanup"} => key[f] = f
    /\ up[f] = "dropping" => key[f] # f
    /\ InFlight(f) => blob[f] = "fresh"

(* Whoever needs a key, its writer is done with it. *)
WriterInv == \A f \in Files : Needs(f) => up[key[f]] = "done"

(* A key adopted by an upload is kept alive by some row until the insert. *)
AdoptInv ==
  \A f \in Files : Adopting(f) =>
    gcPhase = "off" /\ blob[key[f]] # "absent" /\ Referenced(key[f])

(* The collector deletes only keys whose uploads are over and no row needs. *)
GcInv ==
  /\ \A k \in gcTodo : up[k] = "done"
  /\ gcPhase = "reclaim" =>
       gcKey \in Files /\ up[gcKey] = "done" /\ LiveRows(gcKey) = {}

(* A restore past its stat has the bytes. *)
RestoreInv == \A f \in Files : rst[f] = "commit" => blob[key[f]] # "absent"

(* Reconcile considers only keys that are past their upload, and deletes     *)
(* only those nothing needs, now or later.                                   *)
RcInv ==
  \A s \in Sweeps :
    /\ \A k \in rcTodo[s] :
         up[k] # "idle" /\ (rcPhase[s] = "sweep" => blob[k] # "fresh")
    /\ rcKey[s] # NoKey =>
         /\ up[rcKey[s]] # "idle" /\ blob[rcKey[s]] # "fresh"
         /\ \A f \in Files : Needs(f) => key[f] # rcKey[s]

BytesInv ==
  /\ late = {}
  /\ RowsHaveBytes /\ StageInv /\ WriterInv /\ AdoptInv
  /\ GcInv /\ RestoreInv /\ RcInv

IInv == TypeOK /\ LockInv /\ (Quiet \subseteq env => BytesInv)

-----------------------------------------------------------------------------
(* Every variable keeps its type, and the lock has one holder, for any        *)
(* number of uploads and sweeps.                                              *)
LEMMA TypeStep == TypeOK /\ [Next]_vars => TypeOK'
<1> SUFFICES ASSUME TypeOK, [Next]_vars PROVE TypeOK'
  OBVIOUS
<1> USE FilesAssumption, ChecksumAssumption, EnvironmentsAssumption
    DEF TypeOK, OneLockHolder, RowStates, Tombstone, UploadStates, gcVars, rcVars,
        DeleteBlob, TryDeleteBlob
<1>1. ASSUME NEW f \in Files, Upload(f), UNCHANGED env PROVE TypeOK'
  <2>1. CASE StreamBody(f) \/ StreamFails(f) \/ FindNoDuplicate(f)
    BY <2>1, <1>1 DEF StreamBody, StreamFails, FindNoDuplicate
  <2>2. CASE FindDuplicate(f) \/ DropStaged(f)
    BY <2>2, <1>1 DEF FindDuplicate, Duplicates, DropStaged
  <2>3. CASE InsertRow(f) \/ InsertFails(f) \/ InsertUnacknowledged(f)
    BY <2>3, <1>1 DEF InsertRow, InsertFails, InsertUnacknowledged, AfterError
  <2>4. CASE Cleanup(f) \/ Cancel(f)
    BY <2>4, <1>1 DEF Cleanup, Cancel
  <2> QED
    BY <1>1, <2>1, <2>2, <2>3, <2>4 DEF Upload
<1>2. ASSUME NEW f \in Files, Restore(f), UNCHANGED env PROVE TypeOK'
  BY <1>2 DEF Restore, RestoreLock, RestoreStat, RestoreCommit, RestoreAborts, LockFree
<1>3. ASSUME NEW f \in Files, UNCHANGED env,
             Delete(f) \/ DeleteBackdated(f) \/ Expire(f) \/ Age(f)
      PROVE  TypeOK'
  BY <1>3 DEF Delete, DeleteBackdated, Expire, Age
<1>4. ASSUME Collect, UNCHANGED env PROVE TypeOK'
  <2>1. ASSUME NEW scope \in SUBSET Contents, GcStart(scope) PROVE TypeOK'
    BY <2>1, <1>4 DEF GcStart, LockFree
  <2>2. ASSUME NEW k \in Files, GcCount(k) PROVE TypeOK'
    BY <2>2, <1>4 DEF GcCount
  <2>3. CASE GcReclaim \/ GcPurge
    BY <2>3, <1>4 DEF GcReclaim, GcPurge
  <2>4. CASE GcCommit \/ GcAborts
    BY <2>4, <1>4 DEF GcCommit, GcAborts, GcStops, Abandon
  <2>5. ASSUME NEW k \in Files, LateDelete(k) PROVE TypeOK'
    BY <2>5, <1>4 DEF LateDelete
  <2> QED
    BY <1>4, <2>1, <2>2, <2>3, <2>4, <2>5 DEF Collect
<1>5. ASSUME NEW s \in Sweeps, Reconcile(s), UNCHANGED env PROVE TypeOK'
  <2>1. CASE RcList(s) \/ RcSnapshot(s)
    BY <2>1, <1>5 DEF RcList, RcSnapshot
  <2>2. ASSUME NEW k \in Files, RcRecheck(s, k) PROVE TypeOK'
    BY <2>2, <1>5 DEF RcRecheck
  <2>3. CASE RcDelete(s) \/ RcStop(s)
    BY <2>3, <1>5 DEF RcDelete, RcStop, Abandon
  <2> QED
    BY <1>5, <2>1, <2>2, <2>3 DEF Reconcile
<1>6. CASE UNCHANGED vars
  BY <1>6 DEF vars
<1> QED
  BY <1>1, <1>2, <1>3, <1>4, <1>5, <1>6 DEF Next

(* Type correctness of FileStore. *)
THEOREM TypeCorrect == Spec => []TypeOK
<1>1. Init => TypeOK
  BY DEF Init, TypeOK, OneLockHolder, RowStates, UploadStates
<1> QED
  BY <1>1, TypeStep, PTL DEF Spec

-----------------------------------------------------------------------------
(* The lock invariant needs no assumption on the environment.                *)
LEMMA LockStep == TypeOK /\ LockInv /\ [Next]_vars => LockInv'
<1> SUFFICES ASSUME TypeOK, LockInv, [Next]_vars PROVE LockInv'
  OBVIOUS
<1> USE DEF TypeOK, RowStates, Tombstone, LockInv, Pending, gcVars, rcVars
<1>1. ASSUME NEW f \in Files, Upload(f) PROVE LockInv'
  <2>1. CASE StreamBody(f) \/ StreamFails(f) \/ FindNoDuplicate(f)
    BY <2>1 DEF StreamBody, StreamFails, FindNoDuplicate
  <2>2. CASE FindDuplicate(f) \/ DropStaged(f)
    BY <2>2 DEF FindDuplicate, DropStaged
  <2>3. CASE InsertRow(f) \/ InsertFails(f) \/ InsertUnacknowledged(f)
    BY <2>3 DEF InsertRow, InsertFails, InsertUnacknowledged, AfterError
  <2>4. CASE Cleanup(f) \/ Cancel(f)
    BY <2>4 DEF Cleanup, Cancel
  <2> QED
    BY <1>1, <2>1, <2>2, <2>3, <2>4 DEF Upload
<1>2. ASSUME NEW f \in Files, Restore(f) PROVE LockInv'
  BY <1>2 DEF Restore, RestoreLock, RestoreStat, RestoreCommit, RestoreAborts, LockFree
<1>3. ASSUME NEW f \in Files, Delete(f) \/ DeleteBackdated(f) \/ Expire(f) \/ Age(f)
      PROVE  LockInv'
  BY <1>3 DEF Delete, DeleteBackdated, Expire, Age
<1>4. ASSUME Collect PROVE LockInv'
  <2>1. ASSUME NEW scope \in SUBSET Contents, GcStart(scope) PROVE LockInv'
    BY <2>1 DEF GcStart, LockFree
  <2>2. ASSUME NEW k \in Files, GcCount(k) PROVE LockInv'
    BY <2>2 DEF GcCount
  <2>3. CASE GcReclaim \/ GcPurge
    BY <2>3 DEF GcReclaim, GcPurge
  <2>4. CASE GcCommit \/ GcAborts
    BY <2>4 DEF GcCommit, GcAborts, GcStops
  <2>5. ASSUME NEW k \in Files, LateDelete(k) PROVE LockInv'
    BY <2>5 DEF LateDelete
  <2> QED
    BY <1>4, <2>1, <2>2, <2>3, <2>4, <2>5 DEF Collect
<1>5. ASSUME NEW s \in Sweeps, Reconcile(s) PROVE LockInv'
  BY <1>5 DEF Reconcile, RcList, RcSnapshot, RcRecheck, RcDelete, RcStop
<1>6. CASE UNCHANGED vars
  BY <1>6 DEF vars
<1> QED
  BY <1>1, <1>2, <1>3, <1>4, <1>5, <1>6 DEF Next

LEMMA LockCorrect == Spec => [](TypeOK /\ LockInv)
<1>1. Init => TypeOK /\ LockInv
  BY DEF Init, TypeOK, OneLockHolder, LockInv, RowStates, UploadStates
<1> QED
  BY <1>1, TypeStep, LockStep, PTL DEF Spec

-----------------------------------------------------------------------------
(* Where Quiet holds, no step takes the bytes of a live row.                 *)
LEMMA BytesStep ==
  TypeOK /\ LockInv /\ BytesInv /\ Quiet \subseteq env /\ [Next]_vars => BytesInv'
<1> SUFFICES ASSUME TypeOK, LockInv, BytesInv, Quiet \subseteq env, [Next]_vars
             PROVE  BytesInv'
  OBVIOUS
<1> USE FilesAssumption, ChecksumAssumption
    DEF TypeOK, Tombstone, LockInv, BytesInv, Quiet, RowsHaveBytes, StageInv,
        WriterInv, AdoptInv, GcInv, RestoreInv, RcInv, Needs, Adopting, HasRow,
        InFlight, Pending, Referenced, LiveRows, gcVars, rcVars, DeleteBlob, TryDeleteBlob
<1>1. ASSUME NEW f \in Files, StreamBody(f) PROVE BytesInv'
  BY <1>1 DEF StreamBody
<1>2. ASSUME NEW f \in Files, StreamFails(f) PROVE BytesInv'
  BY <1>2 DEF StreamFails
<1>3. ASSUME NEW f \in Files, FindNoDuplicate(f) PROVE BytesInv'
  BY <1>3 DEF FindNoDuplicate
<1>4. ASSUME NEW f \in Files, FindDuplicate(f) PROVE BytesInv'
  BY <1>4 DEF FindDuplicate, Duplicates
<1>5. ASSUME NEW f \in Files, DropStaged(f) PROVE BytesInv'
  BY <1>5 DEF DropStaged
<1>6. ASSUME NEW f \in Files, InsertRow(f) PROVE BytesInv'
  BY <1>6 DEF InsertRow
<1>7. ASSUME NEW f \in Files, InsertFails(f) PROVE BytesInv'
  BY <1>7 DEF InsertFails, AfterError
<1>8. ASSUME NEW f \in Files, Cleanup(f) PROVE BytesInv'
  BY <1>8 DEF Cleanup
<1>9. ASSUME NEW f \in Files, Cancel(f) PROVE BytesInv'
  BY <1>9 DEF Cancel
<1>10. ASSUME NEW f \in Files, Delete(f) PROVE BytesInv'
  BY <1>10 DEF Delete
<1>11. ASSUME NEW f \in Files, DeleteBackdated(f) PROVE BytesInv'
  BY <1>11 DEF DeleteBackdated
<1>12. ASSUME NEW f \in Files, Expire(f) PROVE BytesInv'
  BY <1>12 DEF Expire
<1>13. ASSUME NEW f \in Files, Age(f) PROVE BytesInv'
  BY <1>13 DEF Age
<1>14. ASSUME NEW f \in Files, RestoreLock(f) PROVE BytesInv'
  BY <1>14 DEF RestoreLock, LockFree
<1>15. ASSUME NEW f \in Files, RestoreStat(f) PROVE BytesInv'
  BY <1>15 DEF RestoreStat
<1>16. ASSUME NEW f \in Files, RestoreCommit(f) PROVE BytesInv'
  BY <1>16 DEF RestoreCommit
<1>17. ASSUME NEW f \in Files, RestoreAborts(f) PROVE BytesInv'
  BY <1>17 DEF RestoreAborts
<1>18. ASSUME NEW scope \in SUBSET Contents, GcStart(scope) PROVE BytesInv'
  BY <1>18 DEF GcStart
<1>19. ASSUME NEW k \in Files, GcCount(k) PROVE BytesInv'
  BY <1>19 DEF GcCount
<1>20. ASSUME GcReclaim PROVE BytesInv'
  BY <1>20 DEF GcReclaim
<1>21. ASSUME GcPurge PROVE BytesInv'
  BY <1>21 DEF GcPurge
<1>22. ASSUME GcCommit PROVE BytesInv'
  BY <1>22 DEF GcCommit, GcStops
<1>23. ASSUME GcAborts PROVE BytesInv'
  BY <1>23 DEF GcAborts, GcStops, Abandon
<1>24. ASSUME NEW s \in Sweeps, RcList(s) PROVE BytesInv'
  BY <1>24 DEF RcList
<1>25. ASSUME NEW s \in Sweeps, RcSnapshot(s) PROVE BytesInv'
  BY <1>25 DEF RcSnapshot
<1>26. ASSUME NEW s \in Sweeps, NEW k \in Files, RcRecheck(s, k) PROVE BytesInv'
  BY <1>26 DEF RcRecheck
<1>27. ASSUME NEW s \in Sweeps, RcDelete(s) PROVE BytesInv'
  BY <1>27 DEF RcDelete
<1>28. ASSUME NEW s \in Sweeps, RcStop(s) PROVE BytesInv'
  BY <1>28 DEF RcStop, Abandon
<1>29. ASSUME NEW k \in Files, LateDelete(k) PROVE BytesInv'
  BY <1>29 DEF LateDelete
<1>30. CASE UNCHANGED vars
  BY <1>30 DEF vars
<1> QED
  BY <1>1, <1>2, <1>3, <1>4, <1>5, <1>6, <1>7, <1>8, <1>9, <1>10, <1>11, <1>12, <1>13,
     <1>14, <1>15, <1>16, <1>17, <1>18, <1>19, <1>20, <1>21, <1>22, <1>23, <1>24, <1>25,
     <1>26, <1>27, <1>28, <1>29, <1>30
  DEF Next, Upload, Restore, Collect, Reconcile, InsertUnacknowledged

(* A live row has its bytes, for any number of uploads, deletes, restores,   *)
(* collector runs and reconcile calls, where Quiet holds.                    *)
THEOREM LiveRowsHaveBytes == Spec => []LiveHasBlob
<1>1. Init => IInv
  BY DEF Init, IInv, TypeOK, OneLockHolder, LockInv, BytesInv, RowsHaveBytes, StageInv, WriterInv,
       AdoptInv, GcInv, RestoreInv, RcInv, Needs, Adopting, HasRow, InFlight, Pending,
       RowStates, UploadStates, Tombstone
<1>2. IInv /\ [Next]_vars => IInv'
  <2> SUFFICES ASSUME IInv, [Next]_vars PROVE IInv'
    OBVIOUS
  <2>1. env' = env
    BY DEF Next, vars
  <2> QED
    BY <2>1, TypeStep, LockStep, BytesStep DEF IInv
<1>3. IInv => LiveHasBlob
  BY DEF IInv, BytesInv, LiveHasBlob
<1> QED
  BY <1>1, <1>2, <1>3, PTL DEF Spec

-----------------------------------------------------------------------------
(* The same for the uploads that wrote their own bytes and were told so,      *)
(* without QuietGc and with acknowledgements lost: the invariant speaks of    *)
(* those uploads alone, and nothing is deleted by a handler that is done.     *)
Owns(f) == HasRow(f) /\ key[f] = f
Settled(f) == up[f] \in {"cleanup", "done", "failed"}
Acked(f) == up[f] = "done" /\ key[f] = f

(* How far an upload is, lost acknowledgements included. *)
OwnStageInv ==
  \A f \in Files :
    /\ row[f] # "none" => Settled(f)
    /\ up[f] = "idle" => blob[f] = "absent"
    /\ up[f] \in {"idle", "written", "cleanup"} => key[f] = f
    /\ up[f] = "dropping" => key[f] # f
    /\ InFlight(f) => blob[f] = "fresh"
    /\ Needs(f) => Settled(key[f])

(* What the collector is about to take is no live writer's, and was expired *)
(* when the run began.                                                       *)
OwnGcInv ==
  /\ gcPhase = "off" => gcDue = {} /\ gcTodo = {}
  /\ \A f \in gcDue : row[f] = "expired"
  /\ \A k \in gcTodo : Settled(k) /\ \E f \in gcDue : key[f] = k
  /\ gcPhase = "reclaim" =>
       /\ gcKey \in Files /\ Settled(gcKey) /\ \E f \in gcDue : key[f] = gcKey
       /\ ~(row[gcKey] = "live" /\ key[gcKey] = gcKey)

(* Acknowledged writers keep their bytes: live, retained, being restored. *)
OwnBytesInv ==
  /\ \A f \in Files : row[f] = "live" /\ Acked(f) => blob[f] # "absent"
  /\ \A f \in Files : rst[f] = "commit" /\ Acked(f) => blob[f] # "absent"

Unshared(f) == \A g \in Files \ {f} : row[g] # "none" => key[g] # f
OwnTrashInv ==
  \A f \in Files : row[f] = "trash" /\ Acked(f) /\ Unshared(f) => blob[f] # "absent"

(* Reconcile deletes neither a fresh blob nor that of a row that wrote it. *)
OwnRcInv ==
  \A s \in Sweeps :
    /\ \A k \in rcTodo[s] :
         up[k] # "idle" /\ (rcPhase[s] = "sweep" => blob[k] # "fresh")
    /\ rcKey[s] # NoKey =>
         up[rcKey[s]] # "idle" /\ blob[rcKey[s]] # "fresh" /\ ~Owns(rcKey[s])

OwnInv ==
  late = {} /\ OwnStageInv /\ OwnGcInv /\ OwnBytesInv /\ OwnTrashInv /\ OwnRcInv

(* Where Prompt holds, no step takes the bytes of a live row that wrote them. *)
LEMMA OwnStep ==
  TypeOK /\ LockInv /\ OwnInv /\ Prompt \subseteq env /\ [Next]_vars => OwnInv'
<1> SUFFICES ASSUME TypeOK, LockInv, OwnInv, Prompt \subseteq env, [Next]_vars
             PROVE  OwnInv'
  OBVIOUS
<1> USE FilesAssumption, ChecksumAssumption
    DEF TypeOK, Tombstone, LockInv, OwnInv, Prompt, OwnStageInv, OwnGcInv, Settled,
        Acked, Unshared, OwnBytesInv, OwnTrashInv, OwnRcInv, Needs, Adopting, HasRow, Owns, InFlight, Pending, Referenced, LiveRows, gcVars, rcVars,
        DeleteBlob, TryDeleteBlob
<1>1. ASSUME NEW f \in Files, StreamBody(f) PROVE OwnInv'
  BY <1>1 DEF StreamBody
<1>2. ASSUME NEW f \in Files, StreamFails(f) PROVE OwnInv'
  BY <1>2 DEF StreamFails
<1>3. ASSUME NEW f \in Files, FindNoDuplicate(f) PROVE OwnInv'
  BY <1>3 DEF FindNoDuplicate
<1>4. ASSUME NEW f \in Files, FindDuplicate(f) PROVE OwnInv'
  BY <1>4 DEF FindDuplicate, Duplicates
<1>5. ASSUME NEW f \in Files, DropStaged(f) PROVE OwnInv'
  BY <1>5 DEF DropStaged
<1>6. ASSUME NEW f \in Files, InsertRow(f) PROVE OwnInv'
  BY <1>6 DEF InsertRow
<1>7. ASSUME NEW f \in Files, InsertFails(f) PROVE OwnInv'
  BY <1>7 DEF InsertFails, AfterError
<1>31. ASSUME NEW f \in Files, InsertUnacknowledged(f) PROVE OwnInv'
  BY <1>31 DEF InsertUnacknowledged, AfterError
<1>8. ASSUME NEW f \in Files, Cleanup(f) PROVE OwnInv'
  BY <1>8 DEF Cleanup
<1>9. ASSUME NEW f \in Files, Cancel(f) PROVE OwnInv'
  BY <1>9 DEF Cancel
<1>10. ASSUME NEW f \in Files, Delete(f) PROVE OwnInv'
  BY <1>10 DEF Delete
<1>11. ASSUME NEW f \in Files, DeleteBackdated(f) PROVE OwnInv'
  BY <1>11 DEF DeleteBackdated
<1>12. ASSUME NEW f \in Files, Expire(f) PROVE OwnInv'
  BY <1>12 DEF Expire
<1>13. ASSUME NEW f \in Files, Age(f) PROVE OwnInv'
  BY <1>13 DEF Age
<1>14. ASSUME NEW f \in Files, RestoreLock(f) PROVE OwnInv'
  BY <1>14 DEF RestoreLock, LockFree
<1>15. ASSUME NEW f \in Files, RestoreStat(f) PROVE OwnInv'
  BY <1>15 DEF RestoreStat
<1>16. ASSUME NEW f \in Files, RestoreCommit(f) PROVE OwnInv'
  BY <1>16 DEF RestoreCommit
<1>17. ASSUME NEW f \in Files, RestoreAborts(f) PROVE OwnInv'
  BY <1>17 DEF RestoreAborts
<1>18. ASSUME NEW scope \in SUBSET Contents, GcStart(scope) PROVE OwnInv'
  BY <1>18 DEF GcStart
<1>19. ASSUME NEW k \in Files, GcCount(k) PROVE OwnInv'
  BY <1>19 DEF GcCount
<1>20. ASSUME GcReclaim PROVE OwnInv'
  BY <1>20 DEF GcReclaim
<1>21. ASSUME GcPurge PROVE OwnInv'
  BY <1>21 DEF GcPurge
<1>22. ASSUME GcCommit PROVE OwnInv'
  <2> USE <1>22 DEF GcCommit, GcStops
  <2>1. \A f \in Files : row'[f] \in {row[f], "purged"} /\ (row'[f] = "none" <=> row[f] = "none")
    OBVIOUS
  <2>2. OwnStageInv' /\ OwnGcInv'
    BY <2>1
  <2>3. OwnBytesInv'
    BY <2>1
  <2>4. OwnTrashInv'
    <3>1. \A f \in Files : Unshared(f)' => Unshared(f)
      BY <2>1
    <3> QED
      BY <2>1, <3>1
  <2>5. OwnRcInv'
    BY <2>1
  <2>6. late' = {}
    OBVIOUS
  <2> QED
    BY ONLY <2>2, <2>3, <2>4, <2>5, <2>6 DEF OwnInv
<1>23. ASSUME GcAborts PROVE OwnInv'
  BY <1>23 DEF GcAborts, GcStops, Abandon
<1>24. ASSUME NEW s \in Sweeps, RcList(s) PROVE OwnInv'
  BY <1>24 DEF RcList
<1>25. ASSUME NEW s \in Sweeps, RcSnapshot(s) PROVE OwnInv'
  BY <1>25 DEF RcSnapshot
<1>26. ASSUME NEW s \in Sweeps, NEW k \in Files, RcRecheck(s, k) PROVE OwnInv'
  BY <1>26 DEF RcRecheck
<1>27. ASSUME NEW s \in Sweeps, RcDelete(s) PROVE OwnInv'
  BY <1>27 DEF RcDelete
<1>28. ASSUME NEW s \in Sweeps, RcStop(s) PROVE OwnInv'
  BY <1>28 DEF RcStop, Abandon
<1>29. ASSUME NEW k \in Files, LateDelete(k) PROVE OwnInv'
  BY <1>29 DEF LateDelete
<1>30. CASE UNCHANGED vars
  BY <1>30 DEF vars
<1> QED
  BY <1>1, <1>2, <1>3, <1>4, <1>5, <1>6, <1>7, <1>8, <1>9, <1>10, <1>11, <1>12, <1>13,
     <1>14, <1>15, <1>16, <1>17, <1>18, <1>19, <1>20, <1>21, <1>22, <1>23, <1>24, <1>25,
     <1>26, <1>27, <1>28, <1>29, <1>30, <1>31
  DEF Next, Upload, Restore, Collect, Reconcile

(* Neither the lock nor what an acknowledged upload relies on is ever lost.   *)
LEMMA OwnCorrect == Spec => [](TypeOK /\ LockInv /\ (Prompt \subseteq env => OwnInv))
<1> DEFINE I == TypeOK /\ LockInv /\ (Prompt \subseteq env => OwnInv)
<1>1. Init => I
  BY DEF Init, TypeOK, OneLockHolder, LockInv, OwnInv, OwnStageInv, OwnGcInv, OwnBytesInv,
       OwnTrashInv, OwnRcInv, Settled, Acked, Needs, Adopting, HasRow,
       InFlight, Pending, RowStates, UploadStates, Tombstone
<1>2. I /\ [Next]_vars => I'
  <2> SUFFICES ASSUME I, [Next]_vars PROVE I'
    OBVIOUS
  <2>1. env' = env
    BY DEF Next, vars
  <2> QED
    BY <2>1, TypeStep, LockStep, OwnStep
<1> QED
  BY <1>1, <1>2, PTL DEF Spec

(* An acknowledged upload that wrote its bytes keeps them while its row is    *)
(* live, however the collector overlaps uploads and whatever acknowledgements *)
(* of others are lost.                                                        *)
THEOREM WritersKeepBytes == Spec => []WriterKeepsBlob
<1>1. (Prompt \subseteq env => OwnInv) => WriterKeepsBlob
  BY DEF OwnInv, OwnBytesInv, WriterKeepsBlob, Acked
<1> QED
  BY <1>1, OwnCorrect, PTL

(* Until the retention of a deleted file ends its bytes can be restored, if    *)
(* it wrote them itself and no other row was ever given its key.              *)
THEOREM TrashKeepsBytes == Spec => []UnsharedTrashHasBytes
<1>1. (Prompt \subseteq env => OwnInv) => UnsharedTrashHasBytes
  BY DEF OwnInv, OwnTrashInv, Unshared, UnsharedTrashHasBytes, Acked
<1> QED
  BY <1>1, OwnCorrect, PTL

-----------------------------------------------------------------------------
(* Where OnTime holds, a key whose rows are all gone has no bytes: then       *)
(* reconcile has nothing to take that a row once needed, and a restore may    *)
(* rely on what it has seen in the store.                                     *)
Wrote(k) == row[k] # "none" /\ key[k] = k
NeedsInv == \A f \in Files : Needs(f) => Wrote(key[f])

(* Bytes are kept alive by a row that the running collector will not purge. *)
KeptBy(k, gone) == \E f \in Files \ gone : HasRow(f) /\ key[f] = k
KeptInv == \A k \in Files : Wrote(k) /\ blob[k] # "absent" => KeptBy(k, gcPurged)

DueInv ==
  /\ gcPhase = "off" => gcDue = {} /\ gcTodo = {} /\ gcPurged = {}
  /\ gcPurged \subseteq gcDue
  /\ \A f \in gcDue : row[f] = "expired"
  /\ \A k \in gcTodo : Wrote(k)
  /\ gcPhase \in {"reclaim", "purge"} => gcKey \in Files /\ Wrote(gcKey)
  /\ gcPhase = "purge" /\ blob[gcKey] # "absent" => KeptBy(gcKey, gcDue)

SweepInv ==
  \A s \in Sweeps :
    /\ \A k \in rcTodo[s] :
         up[k] # "idle" /\ (rcPhase[s] = "sweep" => blob[k] # "fresh")
    /\ rcKey[s] # NoKey =>
         /\ up[rcKey[s]] # "idle" /\ blob[rcKey[s]] # "fresh"
         /\ Wrote(rcKey[s]) => blob[rcKey[s]] = "absent"

OrphanInv ==
  late = {} /\ StageInv /\ NeedsInv /\ KeptInv /\ DueInv /\ RestoreInv /\ SweepInv

(* Where OnTime holds, no step leaves bytes behind or takes them from under   *)
(* a restore.                                                                 *)
LEMMA OrphanStep ==
  TypeOK /\ LockInv /\ OrphanInv /\ OnTime \subseteq env /\ [Next]_vars => OrphanInv'
<1> SUFFICES ASSUME TypeOK, LockInv, OrphanInv, OnTime \subseteq env, [Next]_vars
             PROVE  OrphanInv'
  OBVIOUS
<1> USE FilesAssumption, ChecksumAssumption
    DEF TypeOK, Tombstone, LockInv, OrphanInv, OnTime, StageInv, NeedsInv, KeptInv, DueInv,
        RestoreInv, SweepInv, KeptBy, Wrote, Needs, Adopting, HasRow, InFlight, Pending,
        Referenced, LiveRows, gcVars, rcVars, DeleteBlob, TryDeleteBlob
<1>1. ASSUME NEW f \in Files, StreamBody(f) PROVE OrphanInv'
  BY <1>1 DEF StreamBody
<1>2. ASSUME NEW f \in Files, StreamFails(f) PROVE OrphanInv'
  BY <1>2 DEF StreamFails
<1>3. ASSUME NEW f \in Files, FindNoDuplicate(f) PROVE OrphanInv'
  BY <1>3 DEF FindNoDuplicate
<1>4. ASSUME NEW f \in Files, FindDuplicate(f) PROVE OrphanInv'
  BY <1>4 DEF FindDuplicate, Duplicates
<1>5. ASSUME NEW f \in Files, DropStaged(f) PROVE OrphanInv'
  BY <1>5 DEF DropStaged
<1>6. ASSUME NEW f \in Files, InsertRow(f) PROVE OrphanInv'
  BY <1>6 DEF InsertRow
<1>7. ASSUME NEW f \in Files, InsertFails(f) PROVE OrphanInv'
  BY <1>7 DEF InsertFails, AfterError
<1>8. ASSUME NEW f \in Files, Cleanup(f) PROVE OrphanInv'
  BY <1>8 DEF Cleanup
<1>9. ASSUME NEW f \in Files, Cancel(f) PROVE OrphanInv'
  BY <1>9 DEF Cancel
<1>10. ASSUME NEW f \in Files, Delete(f) PROVE OrphanInv'
  BY <1>10 DEF Delete
<1>11. ASSUME NEW f \in Files, Expire(f) PROVE OrphanInv'
  BY <1>11 DEF Expire
<1>12. ASSUME NEW f \in Files, Age(f) PROVE OrphanInv'
  BY <1>12 DEF Age
<1>13. ASSUME NEW f \in Files, RestoreLock(f) PROVE OrphanInv'
  BY <1>13 DEF RestoreLock, LockFree
<1>14. ASSUME NEW f \in Files, RestoreStat(f) PROVE OrphanInv'
  BY <1>14 DEF RestoreStat
<1>15. ASSUME NEW f \in Files, RestoreCommit(f) PROVE OrphanInv'
  BY <1>15 DEF RestoreCommit
<1>16. ASSUME NEW f \in Files, RestoreAborts(f) PROVE OrphanInv'
  BY <1>16 DEF RestoreAborts
<1>17. ASSUME NEW scope \in SUBSET Contents, GcStart(scope) PROVE OrphanInv'
  BY <1>17 DEF GcStart, LockFree
<1>18. ASSUME NEW k \in Files, GcCount(k) PROVE OrphanInv'
  BY <1>18 DEF GcCount
<1>19. ASSUME GcReclaim PROVE OrphanInv'
  BY <1>19 DEF GcReclaim
<1>20. ASSUME GcPurge PROVE OrphanInv'
  BY <1>20 DEF GcPurge
<1>21. ASSUME GcCommit PROVE OrphanInv'
  BY <1>21 DEF GcCommit, GcStops
<1>22. ASSUME GcAborts PROVE OrphanInv'
  BY <1>22 DEF GcAborts, GcStops, Abandon
<1>23. ASSUME NEW s \in Sweeps, RcList(s) PROVE OrphanInv'
  BY <1>23 DEF RcList
<1>24. ASSUME NEW s \in Sweeps, RcSnapshot(s) PROVE OrphanInv'
  BY <1>24 DEF RcSnapshot
<1>25. ASSUME NEW s \in Sweeps, NEW k \in Files, RcRecheck(s, k) PROVE OrphanInv'
  BY <1>25 DEF RcRecheck
<1>26. ASSUME NEW s \in Sweeps, RcDelete(s) PROVE OrphanInv'
  BY <1>26 DEF RcDelete
<1>27. ASSUME NEW s \in Sweeps, RcStop(s) PROVE OrphanInv'
  BY <1>27 DEF RcStop, Abandon
<1>28. ASSUME NEW k \in Files, LateDelete(k) PROVE OrphanInv'
  BY <1>28 DEF LateDelete
<1>29. CASE UNCHANGED vars
  BY <1>29 DEF vars
<1> QED
  BY <1>1, <1>2, <1>3, <1>4, <1>5, <1>6, <1>7, <1>8, <1>9, <1>10, <1>11, <1>12, <1>13,
     <1>14, <1>15, <1>16, <1>17, <1>18, <1>19, <1>20, <1>21, <1>22, <1>23, <1>24, <1>25,
     <1>26, <1>27, <1>28, <1>29
  DEF Next, Upload, Restore, Collect, Reconcile, InsertUnacknowledged, DeleteBackdated

LEMMA OrphanCorrect ==
  Spec => [](TypeOK /\ LockInv /\ (OnTime \subseteq env => OrphanInv))
<1> DEFINE I == TypeOK /\ LockInv /\ (OnTime \subseteq env => OrphanInv)
<1>1. Init => I
  BY DEF Init, TypeOK, OneLockHolder, LockInv, OrphanInv, StageInv, NeedsInv, KeptInv, DueInv, RestoreInv,
       SweepInv, KeptBy, Wrote, Needs, Adopting, HasRow, InFlight, Pending, RowStates,
       UploadStates, Tombstone
<1>2. I /\ [Next]_vars => I'
  <2> SUFFICES ASSUME I, [Next]_vars PROVE I'
    OBVIOUS
  <2>1. env' = env
    BY DEF Next, vars
  <2> QED
    BY <2>1, TypeStep, LockStep, OrphanStep
<1> QED
  BY <1>1, <1>2, PTL DEF Spec

(* The collector leaves no bytes behind, for any number of uploads.           *)
THEOREM NothingIsOrphaned == Spec => []NoOrphanFromGc
<1>1. TypeOK /\ LockInv /\ (OnTime \subseteq env => OrphanInv) => NoOrphanFromGc
  BY DEF OrphanInv, KeptInv, KeptBy, Wrote, NoOrphanFromGc, Referenced
<1> QED
  BY <1>1, OrphanCorrect, PTL

(* A tombstone that becomes live again has its bytes, whatever collectors and *)
(* reconcile calls did between the restore's look at the store and its commit. *)
THEOREM RestoresFindBytes == Spec => RestoreHasBytes
<1> DEFINE Safe ==
      OnTime \subseteq env =>
        \A f \in Files : row[f] \in Tombstone /\ row'[f] = "live" => blob[key[f]] # "absent"
<1>1. TypeOK /\ LockInv /\ (OnTime \subseteq env => OrphanInv) /\ [Next]_vars
        => [Safe]_<<env, row>>
  <2> SUFFICES ASSUME TypeOK, LockInv, OnTime \subseteq env, OrphanInv, [Next]_vars,
                      NEW g \in Files, row[g] \in Tombstone, row'[g] = "live"
               PROVE  blob[key[g]] # "absent"
    OBVIOUS
  <2> USE DEF TypeOK, Tombstone, LockInv, Pending, OrphanInv, RestoreInv
  <2>1. ASSUME NEW f \in Files, Upload(f) PROVE FALSE
    BY <2>1 DEF Upload, StreamBody, StreamFails, FindNoDuplicate, FindDuplicate,
         DropStaged, InsertRow, InsertFails, InsertUnacknowledged, Cleanup, Cancel
  <2>2. ASSUME NEW f \in Files, Restore(f) PROVE blob[key[g]] # "absent"
    BY <2>2 DEF Restore, RestoreLock, RestoreStat, RestoreCommit, RestoreAborts
  <2>3. ASSUME NEW f \in Files, Delete(f) \/ DeleteBackdated(f) \/ Expire(f) \/ Age(f)
        PROVE  FALSE
    BY <2>3 DEF Delete, DeleteBackdated, Expire, Age
  <2>4. CASE Collect
    BY <2>4 DEF Collect, GcStart, GcCount, GcReclaim, GcPurge, GcCommit, GcAborts, LateDelete
  <2>5. ASSUME NEW s \in Sweeps, Reconcile(s) PROVE FALSE
    BY <2>5 DEF Reconcile, RcList, RcSnapshot, RcRecheck, RcDelete, RcStop
  <2>6. CASE UNCHANGED vars
    BY <2>6 DEF vars
  <2> QED
    BY <2>1, <2>2, <2>3, <2>4, <2>5, <2>6 DEF Next
<1> QED
  BY <1>1, OrphanCorrect, PTL DEF Spec, RestoreHasBytes

-----------------------------------------------------------------------------
(* Refinement.  What holds in every environment of the rows a collector has    *)
(* listed, and of storage keys: nobody has a key that is yet to be written.    *)
RunInv ==
  /\ gcPhase = "off" => gcDue = {} /\ gcTodo = {}
  /\ gcPurged \subseteq gcDue
  /\ \A f \in gcDue : row[f] = "expired"
  /\ \A k \in gcTodo : \E f \in gcDue : key[f] = k
  /\ gcPhase = "reclaim" => \E f \in gcDue : key[f] = gcKey
  /\ \A f \in Files : key[f] # f \/ row[f] # "none" => up[key[f]] # "idle"

LEMMA RunStep == TypeOK /\ LockInv /\ RunInv /\ [Next]_vars => RunInv'
<1> SUFFICES ASSUME TypeOK, LockInv, RunInv, [Next]_vars PROVE RunInv'
  OBVIOUS
<1> USE DEF TypeOK, RowStates, UploadStates, Tombstone, LockInv, RunInv, Pending, gcVars, rcVars
<1>1. ASSUME NEW f \in Files, Upload(f) PROVE RunInv'
  <2>1. CASE StreamBody(f) \/ StreamFails(f) \/ FindNoDuplicate(f) \/ DropStaged(f) \/ Cancel(f)
    BY <2>1 DEF StreamBody, StreamFails, FindNoDuplicate, DropStaged, Cancel
  <2>2. CASE FindDuplicate(f)
    BY <2>2 DEF FindDuplicate, Duplicates
  <2>3. CASE InsertRow(f) \/ InsertFails(f) \/ InsertUnacknowledged(f)
    BY <2>3 DEF InsertRow, InsertFails, InsertUnacknowledged, AfterError
  <2>4. CASE Cleanup(f)
    BY <2>4 DEF Cleanup
  <2> QED BY <1>1, <2>1, <2>2, <2>3, <2>4 DEF Upload
<1>2. ASSUME NEW f \in Files, Restore(f) PROVE RunInv'
  BY <1>2 DEF Restore, RestoreLock, RestoreStat, RestoreCommit, RestoreAborts
<1>3. ASSUME NEW f \in Files, Delete(f) \/ DeleteBackdated(f) \/ Expire(f) \/ Age(f)
      PROVE  RunInv'
  BY <1>3 DEF Delete, DeleteBackdated, Expire, Age
<1>4. CASE Collect
  <2>1. ASSUME NEW scope \in SUBSET Contents, GcStart(scope) PROVE RunInv'
    BY <2>1 DEF GcStart, LockFree
  <2>2. ASSUME NEW k \in Files, GcCount(k) \/ LateDelete(k) PROVE RunInv'
    BY <2>2 DEF GcCount, LateDelete
  <2>3. CASE GcReclaim \/ GcPurge
    BY <2>3 DEF GcReclaim, GcPurge
  <2>4. CASE GcCommit \/ GcAborts
    BY <2>4 DEF GcCommit, GcAborts, GcStops
  <2> QED BY <1>4, <2>1, <2>2, <2>3, <2>4 DEF Collect
<1>5. ASSUME NEW s \in Sweeps, Reconcile(s) PROVE RunInv'
  BY <1>5 DEF Reconcile, RcList, RcSnapshot, RcRecheck, RcDelete, RcStop
<1>6. CASE UNCHANGED vars
  BY <1>6 DEF vars
<1> QED
  BY <1>1, <1>2, <1>3, <1>4, <1>5, <1>6 DEF Next

(* All that is known of a state. *)
FullInv ==
  /\ TypeOK /\ LockInv /\ RunInv
  /\ Quiet \subseteq env => BytesInv
  /\ Prompt \subseteq env => OwnInv

LEMMA FullInit == Init => FullInv
BY DEF Init, FullInv, TypeOK, OneLockHolder, LockInv, RunInv, BytesInv, RowsHaveBytes, StageInv, WriterInv,
     AdoptInv, GcInv, RestoreInv, RcInv, OwnInv, OwnStageInv, OwnGcInv, OwnBytesInv,
     OwnTrashInv, OwnRcInv, Settled, Acked, Needs, Adopting, HasRow, InFlight, Pending,
     RowStates, UploadStates, Tombstone

LEMMA FullStep == FullInv /\ [Next]_vars => FullInv'
<1> SUFFICES ASSUME FullInv, [Next]_vars PROVE FullInv'
  OBVIOUS
<1>1. env' = env
  BY DEF Next, vars
<1> QED BY <1>1, TypeStep, LockStep, RunStep, BytesStep, OwnStep DEF FullInv

Sharing(k) == {f \in Files : HasRow(f) /\ key[f] = k}

(* Deleting a blob takes it from the rows that share it, and from no other. *)
LEMMA BlobGone ==
  ASSUME TypeOK, NEW k \in Files, UNCHANGED <<row, key>>, DeleteBlob(k)
  PROVE  Readable' = Readable \ Sharing(k)
BY DEF TypeOK, DeleteBlob, Readable, Sharing, HasRow

(* The bytes of an upload that is not over are promised to nobody. *)
LEMMA PromisedIsDone ==
  ASSUME FullInv, NEW f \in Promised, HasRow(f)
  PROVE  up[key[f]] = "done"
<1>1. CASE Quiet \subseteq env
  BY <1>1 DEF FullInv, BytesInv, WriterInv, Needs, Promised
<1>2. CASE ~(Quiet \subseteq env)
  BY <1>2 DEF Promised
<1> QED BY <1>1, <1>2

LEMMA UnpromisedLost ==
  ASSUME FullInv, NEW k \in Files, up[k] # "done", TryDeleteBlob(k),
         UNCHANGED <<env, row, key>>, Promised' = Promised
  PROVE  [Atomically!Next]_(Atomically!vars)
<1>1. Sharing(k) \cap Promised = {} /\ Sharing(k) \in SUBSET Files
  BY PromisedIsDone DEF Sharing
<1>2. CASE DeleteBlob(k)
  <2>1. Readable' = Readable \ Sharing(k)
    BY <1>2, BlobGone DEF FullInv
  <2>2. Atomically!Lose(Sharing(k))
    BY <1>1, <2>1 DEF Atomically!Lose
  <2> QED BY <1>1, <2>2 DEF Atomically!Next
<1>3. CASE UNCHANGED blob
  BY <1>3 DEF Atomically!vars, Readable, HasRow
<1> QED BY <1>2, <1>3 DEF TryDeleteBlob

(* Every step is a step of AtomicFiles or none. *)
LEMMA StepImplements ==
  FullInv /\ FullInv' /\ [Next]_vars => [Atomically!Next]_(Atomically!vars)
<1> SUFFICES ASSUME FullInv, FullInv', [Next]_vars PROVE [Atomically!Next]_(Atomically!vars)
  OBVIOUS
<1>0. /\ TypeOK /\ LockInv /\ RunInv
      /\ UNCHANGED env
  BY DEF FullInv, Next, vars
<1> USE DEF gcVars, rcVars
<1>1. ASSUME UNCHANGED <<row, key, blob>>,
             \A f \in Files : up'[f] = "done" <=> up[f] = "done"
      PROVE  UNCHANGED Atomically!vars
  BY <1>0, <1>1 DEF Atomically!vars, Promised, Readable, HasRow
<1>2. ASSUME NEW f \in Files, Upload(f) PROVE [Atomically!Next]_(Atomically!vars)
  <2>1. CASE StreamBody(f)
    <3>1. up[f] = "idle" /\ UNCHANGED <<row, key>> /\ blob' = [blob EXCEPT ![f] = "fresh"]
          /\ up' = [up EXCEPT ![f] = "written"]
      BY <2>1 DEF StreamBody
    <3>2. \A g \in Files : HasRow(g) => key[g] # f
      BY <1>0, <3>1 DEF RunInv, HasRow, Tombstone
    <3>3. UNCHANGED <<Readable, Promised>>
      BY <1>0, <3>1, <3>2 DEF TypeOK, Readable, Promised, HasRow
    <3> QED BY <3>1, <3>3 DEF Atomically!vars
  <2>2. CASE StreamFails(f) \/ FindNoDuplicate(f) \/ InsertFails(f) \/ Cancel(f)
    BY <1>0, <1>1, <2>2 DEF StreamFails, FindNoDuplicate, InsertFails, AfterError, Cancel, TypeOK
  <2>3. CASE FindDuplicate(f)
    <3>1. /\ up[f] = "written" /\ up' = [up EXCEPT ![f] = "dropping"]
          /\ UNCHANGED <<row, blob>>
          /\ \A g \in Files \ {f} : key'[g] = key[g]
      BY <1>0, <2>3 DEF FindDuplicate, TypeOK
    <3>2. row[f] = "none"
      BY <1>0, <3>1 DEF LockInv, Pending
    <3>3. UNCHANGED <<Readable, Promised>>
      BY <1>0, <3>1, <3>2 DEF TypeOK, Readable, Promised, HasRow, Tombstone
    <3> QED BY <3>1, <3>3 DEF Atomically!vars
  <2>4. CASE DropStaged(f)
    <3>1. up[f] = "dropping" /\ TryDeleteBlob(f) /\ UNCHANGED <<env, row, key>>
          /\ up' = [up EXCEPT ![f] = "ready"]
      BY <1>0, <2>4 DEF DropStaged
    <3>2. Promised' = Promised
      BY <1>0, <3>1 DEF TypeOK, Promised
    <3> QED BY <3>1, <3>2, UnpromisedLost
  <2>5. CASE InsertRow(f) \/ InsertUnacknowledged(f)
    <3>1. /\ up[f] = "ready" /\ row' = [row EXCEPT ![f] = "live"] /\ UNCHANGED <<key, blob>>
          /\ \A g \in Files \ {f} : up'[g] = up[g]
      BY <1>0, <2>5 DEF InsertRow, InsertUnacknowledged, TypeOK
    <3>2. row[f] = "none"
      BY <1>0, <3>1 DEF LockInv, Pending
    <3>3. Promised' \in {Promised, Promised \cup {f}}
      BY <1>0, <3>1 DEF TypeOK, Promised
    <3>4. Readable' \in {Readable, Readable \cup {f}}
      BY <1>0, <3>1, <3>2 DEF TypeOK, Readable, HasRow, Tombstone
    <3>5. ASSUME f \in Promised' PROVE f \in Readable'
      <4>1. row'[f] = "live"
        BY <1>0, <3>1 DEF TypeOK
      <4>2. CASE Quiet \subseteq env
        <5>1. RowsHaveBytes'
          BY <1>0, <4>2 DEF FullInv, BytesInv
        <5> QED BY <4>1, <5>1 DEF RowsHaveBytes, Readable, HasRow
      <4>3. CASE ~(Quiet \subseteq env)
        <5>1. OwnBytesInv' /\ key'[f] = f /\ up'[f] = "done"
          BY <1>0, <3>5, <4>3 DEF FullInv, OwnInv, Promised
        <5> QED BY <4>1, <5>1 DEF OwnBytesInv, Acked, Readable, HasRow
      <4> QED BY <4>2, <4>3
    <3>6. Atomically!Store(f)
      BY <3>1, <3>2, <3>3, <3>4, <3>5 DEF Atomically!Store
    <3> QED BY <3>6 DEF Atomically!Next
  <2>6. CASE Cleanup(f)
    <3>1. up[f] = "cleanup" /\ TryDeleteBlob(key[f]) /\ UNCHANGED <<env, row, key>>
          /\ up' = [up EXCEPT ![f] = "failed"]
      BY <1>0, <2>6 DEF Cleanup
    <3>2. Promised' = Promised
      BY <1>0, <3>1 DEF TypeOK, Promised
    <3>3. CASE Prompt \subseteq env
      <4>1. key[f] = f
        BY <3>1, <3>3 DEF FullInv, OwnInv, OwnStageInv
      <4> QED BY <3>1, <3>2, <4>1, UnpromisedLost
    <3>4. CASE ~(Prompt \subseteq env)
      <4>1. Promised = {} /\ key[f] \in Files
        BY <1>0, <3>4 DEF Promised, Prompt, Quiet, TypeOK
      <4>2. CASE DeleteBlob(key[f])
        <5>1. Readable' = Readable \ Sharing(key[f])
          BY <1>0, <3>1, <4>1, <4>2, BlobGone
        <5>2. Atomically!Lose(Sharing(key[f])) /\ Sharing(key[f]) \in SUBSET Files
          BY <3>1, <3>2, <4>1, <5>1 DEF Atomically!Lose, Sharing
        <5> QED BY <5>2 DEF Atomically!Next
      <4>3. CASE UNCHANGED blob
        BY <3>1, <3>2, <4>3 DEF Atomically!vars, Readable, HasRow
      <4> QED BY <3>1, <4>2, <4>3 DEF TryDeleteBlob
    <3> QED BY <3>3, <3>4
  <2> QED BY <1>2, <2>1, <2>2, <2>3, <2>4, <2>5, <2>6 DEF Upload
<1>3. ASSUME NEW f \in Files, Restore(f) PROVE [Atomically!Next]_(Atomically!vars)
  <2>1. CASE RestoreLock(f) \/ RestoreStat(f) \/ RestoreAborts(f)
    BY <1>0, <1>1, <2>1 DEF RestoreLock, RestoreStat, RestoreAborts
  <2>2. CASE RestoreCommit(f)
    <3>1. rst[f] = "commit" /\ row' = [row EXCEPT ![f] = "live"] /\ UNCHANGED <<key, blob, up>>
      BY <2>2 DEF RestoreCommit
    <3>2. row[f] \in {"trash", "expired"}
      BY <1>0, <3>1 DEF LockInv, Tombstone
    <3>3. UNCHANGED <<Promised, Readable>>
      BY <1>0, <3>1, <3>2 DEF TypeOK, Promised, Readable, HasRow, Tombstone
    <3>4. ASSUME f \in Promised PROVE f \in Readable
      <4>1. CASE Quiet \subseteq env
        BY <3>1, <3>2, <4>1 DEF FullInv, BytesInv, RestoreInv, Readable, HasRow, Tombstone
      <4>2. CASE ~(Quiet \subseteq env)
        BY <3>1, <3>2, <3>4, <4>2
           DEF FullInv, OwnInv, OwnBytesInv, Acked, Promised, Readable, HasRow, Tombstone
      <4> QED BY <4>1, <4>2
    <3>5. Atomically!Restore(f)
      BY <3>1, <3>2, <3>3, <3>4 DEF Atomically!Restore
    <3> QED BY <3>5 DEF Atomically!Next
  <2> QED BY <1>3, <2>1, <2>2 DEF Restore
<1>4. ASSUME NEW f \in Files, Delete(f) \/ DeleteBackdated(f) PROVE Atomically!Next
  <2>1. row[f] = "live" /\ UNCHANGED <<key, blob, up>>
        /\ \E t \in Tombstone : row' = [row EXCEPT ![f] = t]
    BY <1>4 DEF Delete, DeleteBackdated, Tombstone
  <2>2. UNCHANGED <<Promised, Readable>>
    BY <1>0, <2>1 DEF TypeOK, Promised, Readable, HasRow, Tombstone
  <2>3. Atomically!Delete(f)
    BY <2>1, <2>2 DEF Atomically!Delete, Tombstone
  <2> QED BY <2>3 DEF Atomically!Next
<1>5. ASSUME NEW f \in Files, Expire(f) PROVE Atomically!Next
  <2>1. row[f] = "trash" /\ row' = [row EXCEPT ![f] = "expired"] /\ UNCHANGED <<key, blob, up>>
    BY <1>5 DEF Expire
  <2>2. UNCHANGED <<Promised, Readable>>
    BY <1>0, <2>1 DEF TypeOK, Promised, Readable, HasRow, Tombstone
  <2> QED BY <2>1, <2>2 DEF Atomically!Expire, Atomically!Next
<1>6. ASSUME NEW f \in Files, Age(f) PROVE UNCHANGED Atomically!vars
  <2>1. UNCHANGED <<row, key, up>> /\ blob[f] = "fresh" /\ blob' = [blob EXCEPT ![f] = "old"]
    BY <1>6 DEF Age
  <2>2. UNCHANGED <<Promised, Readable>>
    BY <1>0, <2>1 DEF TypeOK, Promised, Readable, HasRow
  <2> QED BY <2>1, <2>2 DEF Atomically!vars
<1>7. CASE Collect
  <2>1. CASE \/ \E scope \in SUBSET Contents : GcStart(scope)
             \/ \E k \in Files : GcCount(k)
             \/ GcPurge \/ GcAborts
    BY <1>0, <1>1, <2>1 DEF GcStart, GcCount, GcPurge, GcAborts, GcStops
  <2>2. CASE GcReclaim
    <3>1. gcPhase = "reclaim" /\ DeleteBlob(gcKey) /\ UNCHANGED <<row, key, up>>
      BY <2>2 DEF GcReclaim
    <3>2. gcKey \in Files
      BY <1>0, <3>1 DEF TypeOK
    <3>3. Readable' = Readable \ Sharing(gcKey) /\ Promised' = Promised
      BY <1>0, <3>1, <3>2, BlobGone DEF Promised
    <3>4. PICK g \in gcDue : key[g] = gcKey
      BY <1>0, <3>1 DEF RunInv
    <3>5. g \in Sharing(gcKey) /\ row[g] = "expired"
      BY <1>0, <3>4 DEF RunInv, TypeOK, Sharing, HasRow, Tombstone
    <3>6. ASSUME NEW f \in Sharing(gcKey) \cap Promised PROVE row[f] # "live"
      <4>1. CASE Quiet \subseteq env
        BY <3>1, <4>1 DEF FullInv, BytesInv, GcInv, LiveRows, Sharing
      <4>2. CASE ~(Quiet \subseteq env)
        BY <3>1, <4>2 DEF FullInv, OwnInv, OwnGcInv, Sharing, Promised
      <4> QED BY <4>1, <4>2
    <3>7. Atomically!Reclaim(Sharing(gcKey)) /\ Sharing(gcKey) \in SUBSET Files
      BY <3>1, <3>3, <3>5, <3>6 DEF Atomically!Reclaim, Sharing
    <3> QED BY <3>7 DEF Atomically!Next
  <2>3. CASE GcCommit
    <3>1. /\ row' = [f \in Files |-> IF f \in gcPurged THEN "purged" ELSE row[f]]
          /\ UNCHANGED <<key, blob, up>>
      BY <2>3 DEF GcCommit, GcStops
    <3>2. gcPurged \in SUBSET Files /\ \A f \in gcPurged : row[f] = "expired"
      BY <1>0 DEF TypeOK, RunInv
    <3>3. Readable' = Readable \ gcPurged /\ Promised' = Promised
      BY <1>0, <3>1, <3>2 DEF Readable, Promised, HasRow, Tombstone
    <3>4. Atomically!Purge(gcPurged)
      BY <3>1, <3>2, <3>3 DEF Atomically!Purge
    <3> QED BY <3>2, <3>4 DEF Atomically!Next
  <2>4. ASSUME NEW k \in Files, LateDelete(k) PROVE Atomically!Next
    <3>1. k \in late /\ DeleteBlob(k) /\ UNCHANGED <<row, key, up>>
      BY <2>4 DEF LateDelete
    <3>2. Readable' = Readable \ Sharing(k) /\ Promised' = Promised
      BY <1>0, <3>1, BlobGone DEF Promised
    <3>3. Promised = {}
      BY <3>1 DEF FullInv, BytesInv, OwnInv, Promised
    <3>4. Atomically!Lose(Sharing(k)) /\ Sharing(k) \in SUBSET Files
      BY <3>1, <3>2, <3>3 DEF Atomically!Lose, Sharing
    <3> QED BY <3>4 DEF Atomically!Next
  <2> QED BY <1>7, <2>1, <2>2, <2>3, <2>4 DEF Collect
<1>8. ASSUME NEW s \in Sweeps, Reconcile(s) PROVE [Atomically!Next]_(Atomically!vars)
  <2>1. CASE RcList(s) \/ RcSnapshot(s) \/ RcStop(s) \/ \E k \in Files : RcRecheck(s, k)
    BY <1>0, <1>1, <2>1 DEF RcList, RcSnapshot, RcStop, RcRecheck
  <2>2. CASE RcDelete(s)
    <3>1. rcKey[s] \in Files /\ DeleteBlob(rcKey[s]) /\ UNCHANGED <<row, key, up>>
      BY <1>0, <2>2 DEF RcDelete, TypeOK
    <3>2. Readable' = Readable \ Sharing(rcKey[s]) /\ Promised' = Promised
      BY <1>0, <3>1, BlobGone DEF Promised
    <3>3. ASSUME NEW f \in Sharing(rcKey[s]) \cap Promised PROVE FALSE
      <4>1. CASE Quiet \subseteq env
        BY <2>2, <4>1 DEF FullInv, BytesInv, RcInv, RcDelete, Needs, Sharing
      <4>2. CASE ~(Quiet \subseteq env)
        BY <2>2, <4>2 DEF FullInv, OwnInv, OwnRcInv, RcDelete, Owns, Sharing, Promised
      <4> QED BY <4>1, <4>2
    <3>4. Atomically!Lose(Sharing(rcKey[s])) /\ Sharing(rcKey[s]) \in SUBSET Files
      BY <3>1, <3>2, <3>3 DEF Atomically!Lose, Sharing
    <3> QED BY <3>4 DEF Atomically!Next
  <2> QED BY <1>8, <2>1, <2>2 DEF Reconcile
<1>9. CASE UNCHANGED vars
  BY <1>1, <1>9 DEF vars
<1> QED
  BY <1>2, <1>3, <1>4, <1>5, <1>6, <1>7, <1>8, <1>9 DEF Next

(* The five activities together implement AtomicFiles: as long as it is live,  *)
(* a file can be read by the client it was promised to, and until its bytes    *)
(* expire it can be brought back.                                              *)
THEOREM FilesAreAtomic == Spec => Atomic
<1>1. Init => Atomically!Init
  BY DEF Init, Atomically!Init, Promised, Readable, HasRow, Tombstone
<1> QED
  BY <1>1, FullInit, FullStep, StepImplements, PTL DEF Spec, Atomic, Atomically!Spec
=============================================================================
