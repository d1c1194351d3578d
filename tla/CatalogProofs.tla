---------------------------- MODULE CatalogProofs ----------------------------
(* Theorems about Catalog, for any calls, policies and catalogs.              *)
EXTENDS Catalog, FiniteSetTheorems, TLAPS

InTx(c) == at[c] \in {"begin", "delete", "insert", "commit"}

(* A call that no commit has overtaken since it read the latest version.      *)
Current(c) == InTx(c) /\ base[c] = Len(history)

(* What a transaction has inserted is part of its catalog, all at its end.    *)
CallInv ==
  \A c \in Calls :
    /\ base[c] <= Len(history)
    /\ InTx(c) => want[c] \in Catalogs
    /\ at[c] # "idle" => want[c] # None
    /\ at[c] \notin {"insert", "commit"} => put[c] = {}
    /\ InTx(c) => Named(put[c]) \subseteq want[c]
    /\ at[c] = "commit" => Missing(c) = {}

(* A call nobody has overtaken has seen all the policies there are.           *)
CurrentInv ==
  \A c \in Calls : Current(c) =>
    /\ ~Unchanged(c)
    /\ at[c] \in {"delete", "insert"} => snap[c] = policies
    /\ at[c] \in {"insert", "commit"} => gone[c] = policies

(* The key of catalog_versions lets one call at a time commit, a current one. *)
CommitInv ==
  \A c \in Calls : at[c] = "commit" =>
    /\ base[c] = Len(history)
    /\ \A d \in Calls : at[d] = "commit" => d = c

IInv == TypeOK /\ CallInv /\ CurrentInv /\ CommitInv /\ PoliciesAreLatest

-----------------------------------------------------------------------------
Typed ==
  /\ policies \subseteq Rows
  /\ history \in Seq(Hashes)
  /\ at \in [Calls -> {"idle", "read", "begin", "delete", "insert", "commit"}]
  /\ want \in [Calls -> Catalogs \cup {None}]
  /\ base \in [Calls -> Nat]
  /\ snap \in [Calls -> SUBSET Rows]
  /\ gone \in [Calls -> SUBSET Rows]
  /\ put \in [Calls -> SUBSET Rows]

(* A call that ends keeps the types. *)
LEMMA LeaveTypes ==
  ASSUME Typed, NEW c \in Calls, Leave(c), UNCHANGED db
  PROVE  Typed'
<1> USE DEF Typed, Leave, Goto, db
<1>1. /\ at' \in [Calls -> {"idle", "read", "begin", "delete", "insert", "commit"}]
      /\ want' \in [Calls -> Catalogs \cup {None}]
      /\ base' \in [Calls -> Nat]
  OBVIOUS
<1>2. /\ snap' \in [Calls -> SUBSET Rows]
      /\ gone' \in [Calls -> SUBSET Rows]
      /\ put' \in [Calls -> SUBSET Rows]
  OBVIOUS
<1> QED
  BY <1>1, <1>2

(* Every variable keeps its set of values. *)
LEMMA TypedStep == Typed /\ CallInv /\ [Next]_vars => Typed'
<1> SUFFICES ASSUME Typed, CallInv, [Next]_vars PROVE Typed'
  OBVIOUS
<1> USE KeysAssumption, CatalogsAssumption DEF Typed, db, tx
<1>1. ASSUME NEW c \in Calls, NEW catalog \in Catalogs, Register(c, catalog) PROVE Typed'
  BY <1>1 DEF Register, Goto
<1>2. ASSUME NEW c \in Calls, ReadLatest(c) PROVE Typed'
  <2>1. Len(history) \in Nat
    OBVIOUS
  <2>2. CASE Leave(c)
    BY <1>2, <2>2, LeaveTypes DEF ReadLatest
  <2>3. CASE ~Leave(c)
    BY <1>2, <2>1, <2>3 DEF ReadLatest, Goto
  <2> QED
    BY <2>2, <2>3
<1>3. ASSUME NEW c \in Calls, DeleteBegins(c) PROVE Typed'
  BY <1>3 DEF DeleteBegins, Goto
<1>4. ASSUME NEW c \in Calls, DeleteOld(c) PROVE Typed'
  BY <1>4 DEF DeleteOld, Goto
<1>5. ASSUME NEW c \in Calls, NEW p \in Policies, InsertPolicy(c, p) PROVE Typed'
  <2>1. RowOf(c, p) \in Rows
    BY DEF RowOf, Rows
  <2>2. CASE Leave(c)
    BY <1>5, <2>2, LeaveTypes DEF InsertPolicy
  <2>3. CASE ~Leave(c)
    <3>1. put' = [put EXCEPT ![c] = put[c] \cup {RowOf(c, p)}]
      BY <1>5, <2>3 DEF InsertPolicy
    <3>2. put' \in [Calls -> SUBSET Rows]
      BY <2>1, <3>1
    <3> QED
      BY <1>5, <2>3, <3>2 DEF InsertPolicy
  <2> QED
    BY <2>2, <2>3
<1>6. ASSUME NEW c \in Calls, InsertVersion(c) PROVE Typed'
  <2>1. CASE Leave(c)
    BY <1>6, <2>1, LeaveTypes DEF InsertVersion
  <2>2. CASE ~Leave(c)
    BY <1>6, <2>2 DEF InsertVersion, Goto
  <2> QED
    BY <2>1, <2>2
<1>7. ASSUME NEW c \in Calls, Commit(c) PROVE Typed'
  <2>1. want[c] \in Catalogs
    BY <1>7 DEF Commit, CallInv, InTx
  <2>2. Append(history, Hash[want[c]]) \in Seq(Hashes)
    BY <2>1 DEF Hashes
  <2> QED
    BY <1>7, <2>2 DEF Commit, Leave, Goto
<1>8. ASSUME NEW c \in Calls, Drop(c) PROVE Typed'
  BY <1>8, LeaveTypes DEF Drop
<1>9. CASE UNCHANGED vars
  BY <1>9 DEF vars
<1> QED
  BY <1>1, <1>2, <1>3, <1>4, <1>5, <1>6, <1>7, <1>8, <1>9 DEF Next, Step

(* A key another call has inserted is waited for. *)
LEMMA UniqueStep == Typed /\ KeysUnique /\ [Next]_vars => KeysUnique'
<1> SUFFICES ASSUME Typed, KeysUnique, [Next]_vars PROVE KeysUnique'
  OBVIOUS
<1> USE DEF Typed, db, tx
<1>1. ASSUME NEW c \in Calls, Leave(c) PROVE KeysUnique'
  <2>1. /\ \A d \in Calls \ {c} : put'[d] = put[d]
        /\ put'[c] = {}
    BY <1>1 DEF Leave
  <2>2. \A d, e \in Calls : d # e => Keys(put'[d]) \cap Keys(put'[e]) = {}
    <3> SUFFICES ASSUME NEW d \in Calls, NEW e \in Calls, d # e
                 PROVE  Keys(put'[d]) \cap Keys(put'[e]) = {}
      OBVIOUS
    <3>1. CASE d = c \/ e = c
      BY <2>1, <3>1 DEF Keys, Named
    <3>2. CASE d # c /\ e # c
      <4>1. put'[d] = put[d] /\ put'[e] = put[e]
        BY <2>1, <3>2
      <4> QED BY <4>1 DEF KeysUnique
    <3> QED BY <3>1, <3>2
  <2> QED BY <2>2 DEF KeysUnique, Keys, Named
<1>2. ASSUME NEW c \in Calls, NEW p \in Policies, InsertPolicy(c, p), ~Leave(c)
      PROVE  KeysUnique'
  <2>1. /\ put' = [put EXCEPT ![c] = put[c] \cup {RowOf(c, p)}]
        /\ \A d \in Calls \ {c} : KeyOf[p] \notin Keys(put[d])
    BY <1>2 DEF InsertPolicy, Holds
  <2>2. \A r \in put'[c] : r \in put[c] \/ r.policy = p
    BY <2>1 DEF RowOf
  <2>3. Keys(put'[c]) \subseteq Keys(put[c]) \cup {KeyOf[p]}
    BY <2>2 DEF Keys, Named
  <2>4. \A d \in Calls \ {c} : put'[d] = put[d]
    BY <2>1
  <2>5. \A d \in Calls \ {c} : Keys(put'[c]) \cap Keys(put'[d]) = {}
    <3> SUFFICES ASSUME NEW d \in Calls \ {c} PROVE Keys(put'[c]) \cap Keys(put'[d]) = {}
      OBVIOUS
    <3>1. /\ Keys(put'[d]) = Keys(put[d]) /\ KeyOf[p] \notin Keys(put[d])
          /\ Keys(put[c]) \cap Keys(put[d]) = {}
      BY <2>1, <2>4 DEF KeysUnique
    <3> HIDE DEF Keys
    <3> QED BY <2>3, <3>1
  <2>6. \A d, e \in Calls : d # e => Keys(put'[d]) \cap Keys(put'[e]) = {}
    <3> SUFFICES ASSUME NEW d \in Calls, NEW e \in Calls, d # e
                 PROVE  Keys(put'[d]) \cap Keys(put'[e]) = {}
      OBVIOUS
    <3>1. CASE d = c \/ e = c
      BY <2>5, <3>1
    <3>2. CASE d # c /\ e # c
      <4>1. put'[d] = put[d] /\ put'[e] = put[e]
        BY <2>4, <3>2
      <4> QED BY <4>1 DEF KeysUnique
    <3> QED BY <3>1, <3>2
  <2> QED BY <2>6 DEF KeysUnique, Keys, Named
<1>3. CASE UNCHANGED put
  BY <1>3 DEF KeysUnique, Keys, Named
<1>4. \/ \E c \in Calls : Leave(c)
      \/ \E c \in Calls, p \in Policies : InsertPolicy(c, p) /\ ~Leave(c)
      \/ UNCHANGED put
  BY DEF Next, Step, Register, ReadLatest, DeleteBegins, DeleteOld, InsertVersion, Commit, Drop,
     vars
<1> QED BY <1>1, <1>2, <1>3, <1>4

(* Every variable keeps its type. *)
LEMMA TypeStep == TypeOK /\ CallInv /\ [Next]_vars => TypeOK'
<1>1. (TypeOK <=> Typed /\ KeysUnique) /\ (TypeOK' <=> Typed' /\ KeysUnique')
  BY DEF TypeOK, Typed
<1> QED BY <1>1, TypedStep, UniqueStep

(* What a call that leaves contributes to the invariant: nothing.             *)
LEMMA LeaveStep ==
  ASSUME IInv, TypeOK', NEW c \in Calls, Leave(c), UNCHANGED db
  PROVE  IInv'
<1> USE DEF IInv, TypeOK, Leave, Goto, db
<1>1. CallInv'
  BY DEF CallInv, InTx, Missing, Named
<1>2. CurrentInv'
  BY DEF CurrentInv, Current, InTx, Unchanged
<1>3. CommitInv'
  BY DEF CommitInv
<1>4. PoliciesAreLatest'
  BY DEF PoliciesAreLatest, Named
<1> QED
  BY <1>1, <1>2, <1>3, <1>4

(* A current call replaces everything by its catalog.                         *)
LEMMA CommitEffect ==
  ASSUME IInv, NEW c \in Calls, Commit(c)
  PROVE  /\ want[c] \in Catalogs
         /\ Named(policies') = want[c]
         /\ history = <<>> \/ history[Len(history)] # Hash[want[c]]
         /\ Len(history') = Len(history) + 1
         /\ history'[Len(history')] = Hash[want[c]]
         /\ history' # <<>>
<1> USE DEF IInv, TypeOK
<1>1. Current(c) /\ want[c] \in Catalogs /\ gone[c] = policies
  BY DEF Commit, CommitInv, CurrentInv, CallInv, Current, InTx
<1>2. Named(put[c]) = want[c]
  BY DEF Commit, CallInv, InTx, Missing
<1>3. policies' = put[c]
  BY <1>1 DEF Commit
<1>4. history = <<>> \/ history[Len(history)] # Hash[want[c]]
  BY <1>1 DEF CurrentInv, Unchanged
<1>5. /\ Len(history') = Len(history) + 1
      /\ history'[Len(history')] = Hash[want[c]]
      /\ history' # <<>>
  <2>1. history \in Seq(Hashes) /\ history' = Append(history, Hash[want[c]])
    BY DEF Commit
  <2>2. Len(history') = Len(history) + 1 /\ history'[Len(history) + 1] = Hash[want[c]]
    <3>1. Hash[want[c]] \in Hashes
      BY <1>1 DEF Hashes
    <3> QED
      BY <2>1, <3>1
  <2>3. history' # <<>>
    <3>1. Len(history) \in Nat
      BY <2>1
    <3> QED
      BY <2>2, <3>1
  <2> QED
    BY <2>2, <2>3
<1> QED
  BY <1>1, <1>2, <1>3, <1>4, <1>5 DEF Named

(* Every step keeps the invariant. *)
LEMMA InvStep == IInv /\ [Next]_vars => IInv'
<1> SUFFICES ASSUME IInv, [Next]_vars PROVE IInv'
  OBVIOUS
<1>0. TypeOK'
  BY TypeStep DEF IInv
<1> USE DEF TypeOK, db, tx, Goto
<1>1. ASSUME NEW c \in Calls, NEW catalog \in Catalogs, Register(c, catalog) PROVE IInv'
  <2>1. CallInv'
    BY <1>1, NoneAssumption DEF IInv, Register, CallInv, InTx, Missing, Named
  <2>2. CurrentInv'
    BY <1>1 DEF IInv, Register, CurrentInv, Current, InTx, Unchanged
  <2>3. CommitInv' /\ PoliciesAreLatest'
    BY <1>1 DEF IInv, Register, CommitInv, PoliciesAreLatest, Named
  <2> QED
    BY <1>0, <2>1, <2>2, <2>3 DEF IInv
<1>2. ASSUME NEW c \in Calls, ReadLatest(c) PROVE IInv'
  <2>1. CASE Unchanged(c) /\ Leave(c)
    BY <1>0, <1>2, <2>1, LeaveStep DEF ReadLatest
  <2>2. CASE ~Unchanged(c) /\ ~Leave(c)
    <3>1. CallInv'
      BY <1>2, <2>2 DEF IInv, ReadLatest, CallInv, InTx, Missing, Named
    <3>2. CurrentInv'
      BY <1>2, <2>2 DEF IInv, ReadLatest, CurrentInv, Current, InTx, Unchanged
    <3>3. CommitInv' /\ PoliciesAreLatest'
      BY <1>2, <2>2 DEF IInv, ReadLatest, CommitInv, PoliciesAreLatest, Named
    <3> QED
      BY <1>0, <3>1, <3>2, <3>3 DEF IInv
  <2> QED
    BY <1>0, <1>2, <2>1, <2>2, LeaveStep DEF ReadLatest
<1>3. ASSUME NEW c \in Calls, DeleteBegins(c) PROVE IInv'
  <2>1. CallInv'
    BY <1>3 DEF IInv, DeleteBegins, CallInv, InTx, Missing, Named
  <2>2. CurrentInv'
    BY <1>3 DEF IInv, DeleteBegins, CurrentInv, Current, InTx, Unchanged
  <2>3. CommitInv' /\ PoliciesAreLatest'
    BY <1>3 DEF IInv, DeleteBegins, CommitInv, PoliciesAreLatest, Named
  <2> QED
    BY <1>0, <2>1, <2>2, <2>3 DEF IInv
<1>4. ASSUME NEW c \in Calls, DeleteOld(c) PROVE IInv'
  <2>1. CallInv'
    BY <1>4 DEF IInv, DeleteOld, CallInv, InTx, Missing, Named
  <2>2. CurrentInv'
    BY <1>4 DEF IInv, DeleteOld, CurrentInv, Current, InTx, Unchanged
  <2>3. CommitInv' /\ PoliciesAreLatest'
    BY <1>4 DEF IInv, DeleteOld, CommitInv, PoliciesAreLatest, Named
  <2> QED
    BY <1>0, <2>1, <2>2, <2>3 DEF IInv
<1>5. ASSUME NEW c \in Calls, NEW p \in Policies, InsertPolicy(c, p) PROVE IInv'
  <2>1. CASE Leave(c)
    BY <1>0, <1>5, <2>1, LeaveStep DEF InsertPolicy
  <2>2. CASE ~Leave(c)
    <3>1. CallInv'
      <4>1. put' = [put EXCEPT ![c] = @ \cup {RowOf(c, p)}] /\ p \in want[c]
        BY <1>5, <2>2 DEF InsertPolicy, NextPolicy, Missing
      <4>2. Named(put'[c]) = Named(put[c]) \cup {p}
        <5>1. put'[c] = put[c] \cup {RowOf(c, p)} /\ RowOf(c, p).policy = p
          BY <4>1 DEF IInv, RowOf
        <5> QED
          BY <5>1 DEF Named
      <4> QED
        BY <1>5, <2>2, <4>1, <4>2 DEF IInv, InsertPolicy, CallInv, InTx, Missing
    <3>2. CurrentInv'
      BY <1>5, <2>2 DEF IInv, InsertPolicy, CurrentInv, Current, InTx, Unchanged
    <3>3. CommitInv' /\ PoliciesAreLatest'
      BY <1>5, <2>2 DEF IInv, InsertPolicy, CommitInv, PoliciesAreLatest, Named
    <3> QED
      BY <1>0, <3>1, <3>2, <3>3 DEF IInv
  <2> QED
    BY <2>1, <2>2
<1>6. ASSUME NEW c \in Calls, InsertVersion(c) PROVE IInv'
  <2>1. CASE Leave(c)
    BY <1>0, <1>6, <2>1, LeaveStep DEF InsertVersion
  <2>2. CASE ~Leave(c)
    <3>1. CallInv'
      BY <1>6, <2>2 DEF IInv, InsertVersion, CallInv, InTx, Missing, Named
    <3>2. CurrentInv'
      BY <1>6, <2>2 DEF IInv, InsertVersion, CurrentInv, Current, InTx, Unchanged
    <3>3. base[c] = Len(history)
      BY <1>6, <2>2 DEF IInv, InsertVersion, CallInv
    <3>4. \A d \in Calls \ {c} : at[d] # "commit"
      BY <1>6, <3>3 DEF IInv, InsertVersion, CommitInv
    <3>5. CommitInv'
      BY <1>6, <2>2, <3>3, <3>4 DEF IInv, InsertVersion, CommitInv
    <3>6. PoliciesAreLatest'
      BY <1>6, <2>2 DEF IInv, InsertVersion, PoliciesAreLatest, Named
    <3> QED
      BY <1>0, <3>1, <3>2, <3>5, <3>6 DEF IInv
  <2> QED
    BY <2>1, <2>2
<1>7. ASSUME NEW c \in Calls, Commit(c) PROVE IInv'
  <2>1. /\ Named(policies') = want[c] /\ want[c] \in Catalogs
        /\ Len(history') = Len(history) + 1
        /\ history'[Len(history')] = Hash[want[c]] /\ history' # <<>>
    BY <1>7, CommitEffect
  <2>2. CallInv'
    BY <1>7, <2>1 DEF IInv, Commit, Leave, CallInv, InTx, Missing, Named
  <2>3. \A d \in Calls : ~Current(d)'
    BY <1>7, <2>1 DEF IInv, Commit, Leave, CallInv, Current, InTx
  <2>4. CurrentInv'
    BY <2>3 DEF CurrentInv
  <2>5. CommitInv'
    BY <1>7 DEF IInv, Commit, Leave, CommitInv
  <2>6. PoliciesAreLatest'
    BY <2>1 DEF PoliciesAreLatest, Named
  <2> QED
    BY <1>0, <2>2, <2>4, <2>5, <2>6 DEF IInv
<1>8. ASSUME NEW c \in Calls, Drop(c) PROVE IInv'
  BY <1>0, <1>8, LeaveStep DEF Drop
<1>9. CASE UNCHANGED vars
  <2> USE <1>9 DEF vars, IInv
  <2>1. CallInv' /\ CommitInv'
    BY DEF CallInv, CommitInv, InTx, Missing, Named
  <2>2. CurrentInv' /\ PoliciesAreLatest'
    BY DEF CurrentInv, Current, InTx, Unchanged, PoliciesAreLatest, Named
  <2> QED
    BY <1>0, <2>1, <2>2
<1> QED
  BY <1>1, <1>2, <1>3, <1>4, <1>5, <1>6, <1>7, <1>8, <1>9 DEF Next, Step

(* The invariant holds throughout. *)
LEMMA Inductive == Spec => []IInv
<1>1. Init => IInv
  BY DEF Init, IInv, TypeOK, KeysUnique, Keys, CallInv, CurrentInv, CommitInv, PoliciesAreLatest,
         Current, InTx, Missing, Named
<1> QED
  BY <1>1, InvStep, PTL DEF Spec

-----------------------------------------------------------------------------
(* Deadlock. *)

(* What is deleted is deleted by one call; keys are inserted in ascending     *)
(* order, and no key twice.                                                   *)
LockInv ==
  /\ \A c \in Calls : at[c] \notin {"insert", "commit"} => gone[c] = {}
  /\ \A c, d \in Calls : c # d => gone[c] \cap gone[d] = {}
  /\ \A c \in Calls : InTx(c) =>
       \A p \in Missing(c), q \in Named(put[c]) : KeyOf[q] < KeyOf[p]

(* Every step keeps what is known of the locks. *)
LEMMA LockStep == IInv /\ LockInv /\ [Next]_vars => LockInv'
<1> SUFFICES ASSUME IInv, LockInv, [Next]_vars PROVE LockInv'
  OBVIOUS
<1> USE DEF TypeOK, db, tx, Goto, IInv
<1>1. ASSUME NEW c \in Calls, Leave(c) PROVE LockInv'
  BY <1>1 DEF Leave, LockInv, InTx, Missing, Named
<1>2. ASSUME NEW c \in Calls, NEW catalog \in Catalogs, Register(c, catalog) PROVE LockInv'
  BY <1>2 DEF Register, LockInv, InTx, Missing, Named
<1>3. ASSUME NEW c \in Calls, ReadLatest(c), ~Leave(c) PROVE LockInv'
  <2>1. put[c] = {}
    BY <1>3 DEF ReadLatest, CallInv
  <2> QED
    BY <1>3, <2>1 DEF ReadLatest, LockInv, InTx, Missing, Named
<1>4. ASSUME NEW c \in Calls, DeleteBegins(c) PROVE LockInv'
  BY <1>4 DEF DeleteBegins, LockInv, InTx, Missing, Named
<1>5. ASSUME NEW c \in Calls, DeleteOld(c) PROVE LockInv'
  BY <1>5 DEF DeleteOld, LockInv, InTx, Missing, Named
<1>6. ASSUME NEW c \in Calls, NEW p \in Policies, InsertPolicy(c, p), ~Leave(c) PROVE LockInv'
  <2>1. /\ put' = [put EXCEPT ![c] = put[c] \cup {RowOf(c, p)}]
        /\ want[c] \in Catalogs /\ p \in want[c] /\ at[c] = "insert"
        /\ UNCHANGED <<at, want, gone>>
        /\ \A q \in Missing(c) : KeyOf[p] <= KeyOf[q]
    BY <1>6 DEF InsertPolicy, NextPolicy, Missing, CallInv, InTx
  <2>2. Named(put'[c]) = Named(put[c]) \cup {p}
    <3>1. put'[c] = put[c] \cup {RowOf(c, p)} /\ RowOf(c, p).policy = p
      BY <2>1 DEF RowOf
    <3> QED
      BY <3>1 DEF Named
  <2>3. ASSUME NEW r \in Missing(c)', NEW q \in Named(put'[c]) PROVE KeyOf[q] < KeyOf[r]
    <3>1. r \in Missing(c) /\ r # p /\ r \in want[c]
      BY <2>1, <2>2 DEF Missing
    <3>2. CASE q = p
      <4>1. KeyOf[p] \in Nat /\ KeyOf[r] \in Nat
        BY <2>1, <3>1, KeysAssumption, CatalogsAssumption
      <4>2. KeyOf[p] # KeyOf[r]
        BY <2>1, <3>1, DistinctKeysAssumption
      <4> QED
        BY <2>1, <3>1, <3>2, <4>1, <4>2
    <3>3. CASE q \in Named(put[c])
      BY <2>1, <3>1, <3>3 DEF LockInv, InTx
    <3> QED
      BY <2>2, <3>2, <3>3
  <2>4. \A d \in Calls \ {c} : put'[d] = put[d]
    BY <2>1
  <2> QED
    BY <2>1, <2>3, <2>4 DEF LockInv, InTx, Missing, Named
<1>7. ASSUME NEW c \in Calls, InsertVersion(c), ~Leave(c) PROVE LockInv'
  BY <1>7 DEF InsertVersion, LockInv, InTx, Missing, Named
<1>8. CASE UNCHANGED vars
  BY <1>8 DEF vars, LockInv, InTx, Missing, Named
<1>9. \/ \E c \in Calls : Leave(c)
      \/ \E c \in Calls :
           \/ \E catalog \in Catalogs : Register(c, catalog)
           \/ ReadLatest(c) /\ ~Leave(c)
           \/ DeleteBegins(c) \/ DeleteOld(c)
           \/ \E p \in Policies : InsertPolicy(c, p) /\ ~Leave(c)
           \/ InsertVersion(c) /\ ~Leave(c)
      \/ UNCHANGED vars
  BY DEF Next, Step, Commit, Drop
<1> QED
  BY <1>1, <1>2, <1>3, <1>4, <1>5, <1>6, <1>7, <1>8, <1>9

(* The policy a call waits to insert, by its key. *)
WaitsAt(c, k) == at[c] = "insert" /\ \E p \in Policies : NextPolicy(c, p) /\ KeyOf[p] = k

LEMMA WaitsAtOne ==
  ASSUME NEW c, NEW k, NEW l, WaitsAt(c, k), WaitsAt(c, l)
  PROVE  k = l /\ k \in Nat
<1>1. PICK p \in Policies : NextPolicy(c, p) /\ KeyOf[p] = k
  BY DEF WaitsAt
<1>2. PICK q \in Policies : NextPolicy(c, q) /\ KeyOf[q] = l
  BY DEF WaitsAt
<1> QED BY <1>1, <1>2, KeysAssumption DEF NextPolicy

(* Of two calls that can still succeed and wait, the one that is waited for    *)
(* waits at a greater key.                                                     *)
LEMMA WaitsAscend ==
  ASSUME IInv, LockInv, NEW c \in Calls, NEW d \in Calls, Current(c), Current(d),
         gone[d] = {}, at[c] = "insert", at[d] = "insert", WaitsFor(c, d), NEW l, WaitsAt(d, l)
  PROVE  \E k \in Nat : WaitsAt(c, k) /\ k < l
<1>1. PICK p \in Policies : NextPolicy(c, p) /\ Holds(d, KeyOf[p])
  BY DEF WaitsFor
<1>2. PICK r \in Named(put[d]) : KeyOf[r] = KeyOf[p]
  BY <1>1 DEF Holds, Keys, Named
<1>3. PICK q \in Missing(d) : KeyOf[q] = l
  BY DEF WaitsAt, NextPolicy
<1>4. KeyOf[r] < KeyOf[q]
  BY <1>3 DEF LockInv, Current
<1> QED BY <1>1, <1>2, <1>3, <1>4, KeysAssumption DEF WaitsAt

(* If all the calls of a set wait within the set, then none of them deletes    *)
(* or has deleted anything.                                                    *)
LEMMA AllInsert ==
  ASSUME IInv, LockInv, NEW D \in SUBSET Calls, \A c \in D : Current(c),
         \A c \in D : \E d \in D \ {c} : WaitsFor(c, d), NEW c \in D
  PROVE  /\ at[c] = "insert" /\ gone[c] = {}
         /\ \E k \in Nat : WaitsAt(c, k)
<1> USE DEF IInv, TypeOK
<1>1. ASSUME NEW e \in D PROVE at[e] \in {"delete", "insert"}
  BY DEF WaitsFor
<1>2. ASSUME NEW e \in D, at[e] = "insert"
      PROVE  gone[e] = {} /\ \E k \in Nat : WaitsAt(e, k)
  <2>1. PICK d \in D \ {e} : WaitsFor(e, d)
    OBVIOUS
  <2>2. PICK p \in Policies : NextPolicy(e, p) /\ Holds(d, KeyOf[p])
    BY <1>1, <1>2, <2>1 DEF WaitsFor
  <2>3. put[d] # {} \/ gone[d] # {}
    BY <2>2 DEF Holds, Keys, Named
  <2>4. at[d] = "insert"
    BY <1>1, <2>3 DEF LockInv, CallInv
  <2>5. gone[e] = policies /\ gone[d] = policies
    BY <1>2, <2>4 DEF CurrentInv
  <2>6. gone[e] = {}
    BY <2>5 DEF LockInv
  <2> QED BY <1>2, <2>2, <2>6, KeysAssumption DEF WaitsAt
<1>3. at[c] # "delete"
  <2>1. PICK d \in D \ {c} : WaitsFor(c, d)
    OBVIOUS
  <2>2. at[c] = "delete" => gone[d] # {}
    BY <2>1 DEF WaitsFor
  <2>3. gone[d] = {}
    BY <1>1, <1>2 DEF LockInv
  <2> QED BY <2>2, <2>3
<1> QED BY <1>1, <1>2, <1>3

(* Calls that can still succeed do not wait for each other: the keys they wait *)
(* at would ascend for ever.                                                   *)
LEMMA NoCycle == IInv /\ LockInv => OnlyOvertakenDeadlock
<1> SUFFICES ASSUME IInv, LockInv, NEW D \in SUBSET Calls, D # {},
                    \A c \in D : \E d \in D \ {c} : WaitsFor(c, d),
                    \A c \in D : ~(base[c] < Len(history))
             PROVE  FALSE
  BY DEF OnlyOvertakenDeadlock
<1>1. \A c \in D : Current(c)
  BY DEF WaitsFor, Current, InTx, CallInv, IInv, TypeOK
<1>2. \A c \in D : at[c] = "insert" /\ gone[c] = {} /\ \E k \in Nat : WaitsAt(c, k)
  BY <1>1, AllInsert
<1> DEFINE Ahead(c) == {e \in D : \E k, l \in Nat : WaitsAt(c, k) /\ WaitsAt(e, l) /\ k < l}
<1>3. ASSUME NEW c \in D PROVE \E d \in D : Ahead(d) \subseteq Ahead(c) /\ Ahead(d) # Ahead(c)
  <2>1. PICK d \in D \ {c} : WaitsFor(c, d)
    OBVIOUS
  <2>2. PICK l \in Nat : WaitsAt(d, l)
    BY <1>2
  <2>3. PICK k \in Nat : WaitsAt(c, k) /\ k < l
    BY <1>1, <1>2, <2>1, <2>2, WaitsAscend
  <2>4. d \in Ahead(c)
    BY <2>2, <2>3
  <2>5. d \notin Ahead(d)
    BY <2>2, WaitsAtOne
  <2>6. ASSUME NEW e \in Ahead(d) PROVE e \in Ahead(c)
    <3>1. PICK m, n \in Nat : WaitsAt(d, m) /\ WaitsAt(e, n) /\ m < n
      OBVIOUS
    <3>2. m = l
      BY <2>2, <3>1, WaitsAtOne
    <3>3. k < n
      BY <2>3, <3>1, <3>2
    <3> QED BY <2>3, <3>1, <3>3
  <2> QED BY <2>4, <2>5, <2>6
<1> HIDE DEF Ahead
<1> DEFINE T == {Ahead(c) : c \in D}
<1>4. T \subseteq SUBSET D /\ T # {}
  <2>1. ASSUME NEW c \in D PROVE Ahead(c) \subseteq D
    BY DEF Ahead
  <2> QED BY <2>1
<1>5. IsFiniteSet(D)
  BY CallsAssumption, FS_Subset
<1>6. IsWellFoundedOn(StrictSubsetOrdering(D), SUBSET D)
  BY <1>5, FS_StrictSubsetOrderingWellFounded, FS_FiniteSubsetsOfFinite
<1>7. PICK x \in T : \A y \in T : <<y, x>> \notin StrictSubsetOrdering(D)
  <2> HIDE DEF T
  <2> QED BY <1>4, <1>6, WFMin
<1>8. PICK c \in D : x = Ahead(c)
  OBVIOUS
<1>9. PICK d \in D : Ahead(d) \subseteq Ahead(c) /\ Ahead(d) # Ahead(c)
  BY <1>3
<1>10. Ahead(d) \in T /\ <<Ahead(d), x>> \in StrictSubsetOrdering(D)
  BY <1>4, <1>8, <1>9 DEF StrictSubsetOrdering
<1> QED BY <1>7, <1>10

(* The order of the keys keeps calls that can still succeed from deadlock.    *)
THEOREM OvertakenDeadlocks == Spec => []OnlyOvertakenDeadlock
<1>1. Init => IInv /\ LockInv
  BY DEF Init, IInv, TypeOK, KeysUnique, Keys, CallInv, CurrentInv, CommitInv, PoliciesAreLatest,
         Current, LockInv, InTx, Missing, Named
<1>2. IInv /\ LockInv /\ [Next]_vars => (IInv /\ LockInv)'
  BY InvStep, LockStep
<1> QED
  BY <1>1, <1>2, NoCycle, PTL DEF Spec

-----------------------------------------------------------------------------
(* Every variable keeps its type. *)
THEOREM TypeCorrect == Spec => []TypeOK
  BY Inductive, PTL DEF IInv

(* The policies in force are those of the latest version, however many calls   *)
(* overlap and fail.                                                           *)
THEOREM LatestIsInForce == Spec => []PoliciesAreLatest
  BY Inductive, PTL DEF IInv

(* The calls implement the atomic register of catalogs. *)
THEOREM RegistrationIsAtomic == Spec => Atomic
<1>1. Init => Atomically!Init
  BY DEF Init, Atomically!Init, Named
<1>2. IInv /\ [Next]_vars => [Atomically!Next]_(Atomically!vars)
  <2> SUFFICES ASSUME IInv, [Next]_vars PROVE [Atomically!Next]_(Atomically!vars)
    OBVIOUS
  <2>1. ASSUME NEW c \in Calls, Commit(c) PROVE Atomically!Next
    BY <2>1, CommitEffect DEF Atomically!Next, Atomically!Register, Commit
  <2>2. ASSUME UNCHANGED db PROVE UNCHANGED Atomically!vars
    BY <2>2 DEF db, Atomically!vars, Named
  <2>3. (\E c \in Calls : Commit(c)) \/ UNCHANGED db
    BY DEF Next, Step, Register, ReadLatest, DeleteBegins, DeleteOld, InsertPolicy,
           InsertVersion, Drop, vars, db
  <2> QED
    BY <2>1, <2>2, <2>3
<1> QED
  BY <1>1, <1>2, Inductive, PTL DEF Spec, Atomic, Atomically!Spec
=============================================================================
