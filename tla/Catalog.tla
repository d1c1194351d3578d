------------------------------- MODULE Catalog -------------------------------
(***************************************************************************)
(* Concurrent calls of register_catalog for one tenant.  Each looks up the *)
(* latest version outside its transaction, then replaces the policies and  *)
(* adds a version, statement by statement under READ COMMITTED.  DELETE    *)
(* removes what was committed when it began and waits for locked rows; an  *)
(* INSERT waits for a transaction that wrote its unique key, and fails if  *)
(* the key is committed.                                                   *)
(***************************************************************************)
EXTENDS Naturals, Sequences, FiniteSets

CONSTANTS
  Calls,
  Policies, KeyOf,   \* policies and policies.key, ordered as text is
  Catalogs,          \* the catalogs an application may register
  Hash,              \* catalog_hash, which joins fields and need not be injective
  None,
  MaxVersion         \* bound: no call begins once this version is reached

ASSUME CallsAssumption == IsFiniteSet(Calls)
ASSUME KeysAssumption == KeyOf \in [Policies -> Nat]
ASSUME CatalogsAssumption == Catalogs \subseteq SUBSET Policies /\ {} \notin Catalogs
ASSUME DistinctKeysAssumption ==
  \A catalog \in Catalogs : \A p, q \in catalog : KeyOf[p] = KeyOf[q] => p = q
ASSUME HashAssumption == DOMAIN Hash = Catalogs
ASSUME NoneAssumption == None \notin Catalogs

VARIABLES
  policies,   \* the rows of policies, as committed
  history,    \* catalog_versions: the hash of each version
  at, want,   \* each call: how far it is and what it registers
  base,       \* the latest version it has read
  snap,       \* the rows its DELETE has seen
  gone, put   \* the rows its transaction has deleted, and those it has inserted

db == <<policies, history>>
tx == <<snap, gone, put>>
vars == <<db, at, want, base, tx>>

Hashes == {Hash[catalog] : catalog \in Catalogs}

(* A row and its id, which is fresh: see RowOf. *)
Rows == [policy : Policies, id : Nat]

Named(rows) == {r.policy : r \in rows}
Keys(rows) == {KeyOf[p] : p \in Named(rows)}

(* UNIQUE (tenant_id, key): of the calls under way at most one has inserted a
   row with a given key. *)
KeysUnique == \A c, d \in Calls : c # d => Keys(put[c]) \cap Keys(put[d]) = {}

TypeOK ==
  /\ policies \subseteq Rows
  /\ history \in Seq(Hashes)
  /\ at \in [Calls -> {"idle", "read", "begin", "delete", "insert", "commit"}]
  /\ want \in [Calls -> Catalogs \cup {None}]
  /\ base \in [Calls -> Nat]
  /\ snap \in [Calls -> SUBSET Rows]
  /\ gone \in [Calls -> SUBSET Rows]
  /\ put \in [Calls -> SUBSET Rows]
  /\ KeysUnique

Init ==
  /\ policies = {} /\ history = <<>>
  /\ at = [c \in Calls |-> "idle"]
  /\ want = [c \in Calls |-> None]
  /\ base = [c \in Calls |-> 0]
  /\ snap = [c \in Calls |-> {}]
  /\ gone = [c \in Calls |-> {}]
  /\ put = [c \in Calls |-> {}]

-----------------------------------------------------------------------------
(* The version a call adds stands for the random ids of its rows: no two calls
   that commit add the same one. *)
RowOf(c, p) == [policy |-> p, id |-> base[c] + 1]

Missing(c) == want[c] \ Named(put[c])

(* A seeded fault: the policies are inserted in the order of the request. *)
NextPolicyUnsorted(c, p) == p \in Missing(c)

(* `policies.sort_by` *)
NextPolicy(c, p) ==
  p \in Missing(c) /\ \A q \in Missing(c) : KeyOf[p] <= KeyOf[q]

Goto(c, step) == at' = [at EXCEPT ![c] = step]

(* The end of a call; a transaction that has not committed leaves nothing. *)
Leave(c) ==
  /\ Goto(c, "idle")
  /\ want' = [want EXCEPT ![c] = None]
  /\ base' = [base EXCEPT ![c] = 0]
  /\ snap' = [snap EXCEPT ![c] = {}]
  /\ gone' = [gone EXCEPT ![c] = {}]
  /\ put' = [put EXCEPT ![c] = {}]

-----------------------------------------------------------------------------
Register(c, catalog) ==
  /\ at[c] = "idle" /\ Len(history) < MaxVersion
  /\ Goto(c, "read")
  /\ want' = [want EXCEPT ![c] = catalog]
  /\ UNCHANGED <<db, base, tx>>

Unchanged(c) == history # <<>> /\ history[Len(history)] = Hash[want[c]]

(* A seeded fault: only a first registration is compared. *)
ReadLatestAlways(c) ==
  /\ at[c] = "read"
  /\ Goto(c, "begin")
  /\ base' = [base EXCEPT ![c] = Len(history)]
  /\ UNCHANGED <<db, want, tx>>

(* The answer for an unchanged catalog, or the version to replace. *)
ReadLatest(c) ==
  /\ at[c] = "read"
  /\ \/ Unchanged(c) /\ Leave(c)
     \/ /\ ~Unchanged(c)
        /\ Goto(c, "begin")
        /\ base' = [base EXCEPT ![c] = Len(history)]
        /\ UNCHANGED <<want, tx>>
  /\ UNCHANGED db

DeleteBegins(c) ==
  /\ at[c] = "begin"
  /\ Goto(c, "delete")
  /\ snap' = [snap EXCEPT ![c] = policies]
  /\ UNCHANGED <<db, want, base, gone, put>>

DeleteOld(c) ==
  /\ at[c] = "delete"
  /\ \A d \in Calls \ {c} : gone[d] \cap snap[c] = {}
  /\ Goto(c, "insert")
  /\ gone' = [gone EXCEPT ![c] = snap[c] \cap policies]
  /\ UNCHANGED <<db, want, base, snap, put>>

(* A transaction that has written the key and not ended. *)
Holds(d, k) == k \in Keys(put[d]) \cup Keys(gone[d])

KeyTaken(c, k) == k \in Keys(policies \ gone[c])

(* A seeded fault: policies has no UNIQUE (tenant_id, key). *)
InsertPolicyUnchecked(c, p) ==
  /\ at[c] = "insert" /\ NextPolicy(c, p)
  /\ put' = [put EXCEPT ![c] = @ \cup {RowOf(c, p)}]
  /\ UNCHANGED <<db, at, want, base, snap, gone>>

InsertPolicy(c, p) ==
  /\ at[c] = "insert" /\ NextPolicy(c, p)
  /\ ~\E d \in Calls \ {c} : Holds(d, KeyOf[p])
  /\ \/ /\ ~KeyTaken(c, KeyOf[p])
        /\ put' = [put EXCEPT ![c] = @ \cup {RowOf(c, p)}]
        /\ UNCHANGED <<at, want, base, snap, gone>>
     \/ KeyTaken(c, KeyOf[p]) /\ Leave(c)
  /\ UNCHANGED db

(* A seeded fault: catalog_versions has no primary key. *)
InsertVersionUnchecked(c) ==
  /\ at[c] = "insert" /\ Missing(c) = {}
  /\ Goto(c, "commit")
  /\ UNCHANGED <<db, want, base, tx>>

InsertVersion(c) ==
  /\ at[c] = "insert" /\ Missing(c) = {}
  /\ ~\E d \in Calls \ {c} : at[d] = "commit" /\ base[d] = base[c]
  /\ \/ base[c] + 1 \notin DOMAIN history /\ Goto(c, "commit") /\ UNCHANGED <<want, base, tx>>
     \/ base[c] + 1 \in DOMAIN history /\ Leave(c)
  /\ UNCHANGED db

Commit(c) ==
  /\ at[c] = "commit"
  /\ policies' = (policies \ gone[c]) \cup put[c]
  /\ history' = Append(history, Hash[want[c]])
  /\ Leave(c)

(* The client disconnects, or a statement fails. *)
Drop(c) == at[c] # "idle" /\ Leave(c) /\ UNCHANGED db

-----------------------------------------------------------------------------
Step(c) ==
  \/ ReadLatest(c) \/ DeleteBegins(c) \/ DeleteOld(c)
  \/ InsertVersion(c) \/ Commit(c)
  \/ \E p \in Policies : InsertPolicy(c, p)

Next ==
  \E c \in Calls :
    \/ Step(c) \/ Drop(c)
    \/ \E catalog \in Catalogs : Register(c, catalog)

Spec == Init /\ [][Next]_vars

-----------------------------------------------------------------------------
(* Properties.                                                                 *)

(* The policies in force are those of the latest version, whole and unmixed,   *)
(* although one DELETE does not see the rows another call has inserted.        *)
PoliciesAreLatest ==
  IF history = <<>>
  THEN policies = {}
  ELSE Named(policies) \in Catalogs /\ Hash[Named(policies)] = history[Len(history)]

(* The calls implement AtomicCatalog: a version replaces the one before it at  *)
(* once, and no two calls add a version for the same change.                   *)
Atomically == INSTANCE AtomicCatalog WITH inForce <- Named(policies)
Atomic == Atomically!Spec

(* The statement a call is at waits for what another transaction has written.  *)
WaitsFor(c, d) ==
  \/ at[c] = "delete" /\ gone[d] \cap snap[c] # {}
  \/ at[c] = "insert" /\ \E p \in Policies : NextPolicy(c, p) /\ Holds(d, KeyOf[p])
  \/ at[c] = "insert" /\ Missing(c) = {} /\ at[d] = "commit" /\ base[d] = base[c]

(* Inserting in the order of the keys keeps calls from waiting for each other, *)
(* however many they are, unless one of them has been overtaken and cannot     *)
(* succeed any more.                                                           *)
OnlyOvertakenDeadlock ==
  \A D \in (SUBSET Calls) \ {{}} :
    (\A c \in D : \E d \in D \ {c} : WaitsFor(c, d))
      => \E c \in D : base[c] < Len(history)
=============================================================================
