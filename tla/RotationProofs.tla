--------------------------- MODULE RotationProofs ---------------------------
(***************************************************************************)
(* Proofs about Rotation, for any processes, tenants, keys and operators:  *)
(* secrets stay readable and unchanged, and a success is never false.      *)
(***************************************************************************)
EXTENDS Rotation, TLAPS

-----------------------------------------------------------------------------
(* Processes run with the keys being deployed or with the ones before; once    *)
(* a rotation has succeeded with them, all run with the keys being deployed.   *)
ConfigInv ==
  /\ \A p \in Procs : config[p].current \in {0, target.current, target.previous}
  /\ success => Deployed
  /\ \A p \in Procs : rot[p].at # "idle" /\ config[p] = target => Deployed

(* A rotation under way holds its row's lock on what it read, and has done      *)
(* every tenant that is not on its list.                                       *)
CallInv ==
  /\ \A p \in Procs : rot[p].at = "locked" =>
       /\ rot[p].on \in rot[p].todo
       /\ rot[p].signing = signing[rot[p].on] /\ rot[p].signing # NoSecret
       /\ rot[p].hook = hook[rot[p].on]
  /\ \A p, q \in Procs :
       rot[p].at = "locked" /\ rot[q].at = "locked" /\ rot[p].on = rot[q].on => p = q
  /\ \A t \in Kept(hook) : signing[t] # NoSecret
  /\ \A p \in Procs : rot[p].todo \subseteq Kept(signing)

DoneInv ==
  \A p \in Procs : rot[p].at # "idle" /\ ~rot[p].failed /\ config[p] = target =>
    \A t \in Kept(signing) \ rot[p].todo :
      /\ signing[t].key = target.current
      /\ hook[t] # NoSecret => hook[t].key = target.current

(* An event of a process that had the keys being deployed carries the secret of *)
(* its tenant, under a key that is in use or has been.                          *)
EventInv ==
  \A e \in Events :
    /\ event[e].at = "loaded" =>
         /\ event[e].by \in Procs /\ event[e].secret \in Secrets
         /\ event[e].fresh => event[e].secret = event[e].was
    /\ event[e].at = "queued" =>
         /\ event[e].stored \in Stored /\ event[e].stored.key <= target.current
         /\ event[e].fresh => event[e].stored.secret = event[e].was

KeyOrder == target.previous <= target.current

IInv ==
  /\ TypeOK /\ ConfigInv /\ CallInv /\ DoneInv /\ EventInv /\ KeyOrder
  /\ TenantSecretsReadable /\ SuccessMeansRotated /\ SecretsAreKept

-----------------------------------------------------------------------------
(* What the encryption helpers return. *)
LEMMA Encryption ==
  ASSUME NEW c \in Configs, NEW s \in Secrets
  PROVE  Encrypt(c, s) \in Stored /\ Encrypt(c, s).secret = s /\ Encrypt(c, s).key = c.current
  BY DEF Encrypt, Stored, Configs

LEMMA Reencryption ==
  ASSUME NEW c \in Configs, NEW v \in Stored, ~ReencryptFails(c, v)
  PROVE  /\ Reencrypt(c, v) \in Stored
         /\ Reencrypt(c, v).secret = v.secret
         /\ Reencrypt(c, v).key = c.current
<1>1. v.secret \in Secrets /\ Decrypt(c, v) = v.secret
  BY DEF ReencryptFails, Decrypt, Readable, Stored
<1> QED
  BY <1>1, Encryption DEF Reencrypt

LEMMA Decryption ==
  ASSUME NEW c \in Configs, NEW v \in Stored
  PROVE  Decrypt(c, v) \in Secrets
  BY SecretsAssumption DEF Decrypt, Stored

LEMMA Values == \A v \in Stored : v # NoSecret /\ v.secret \in Secrets /\ v.key \in Keys
  BY NoSecretAssumption DEF Stored

(* The calls a step leaves behind. *)
LEMMA CallTypes ==
  /\ Idle \in Calls
  /\ \A r \in Calls : r.at \in {"idle", "next", "locked"} /\ r.on \in Tenants \cup {NoSecret}
       /\ r.todo \subseteq Tenants /\ r.failed \in BOOLEAN
       /\ r.signing \in Stored \cup {NoSecret} /\ r.hook \in Stored \cup {NoSecret}
  BY DEF Idle, Calls

-----------------------------------------------------------------------------
LEMMA TypeStep == TypeOK /\ CallInv /\ EventInv /\ [Next]_vars => TypeOK'
<1> SUFFICES ASSUME TypeOK, CallInv, EventInv, [Next]_vars PROVE TypeOK'
  OBVIOUS
<1> USE CallTypes DEF TypeOK
<1>1. ASSUME NEW p \in Procs, NEW t \in Tenants, CreateTenant(p, t) PROVE TypeOK'
  BY <1>1, Encryption, SecretsAssumption DEF CreateTenant
<1>2. ASSUME NEW p \in Procs, NEW t \in Tenants, NEW e \in Events, LoadTenant(p, t, e) PROVE TypeOK'
  <2>1. /\ hook[t] \in Stored /\ hook[t].secret \in Secrets
        /\ Decrypt(config[p], hook[t]) \in Secrets
    BY <1>2, Decryption, Values DEF LoadTenant
  <2>2. event'[e] \in EventRecords
    BY <1>2, <2>1 DEF LoadTenant, EventRecords
  <2> QED
    BY <1>2, <2>2 DEF LoadTenant
<1>3. ASSUME NEW p \in Procs, NEW t \in Tenants, NEW s \in Secrets \cup {NoSecret},
             SetWebhook(p, t, s) PROVE TypeOK'
  BY <1>3, Encryption DEF SetWebhook
<1>4. ASSUME NEW e \in Events, Enqueue(e) \/ EndEvent(e) PROVE TypeOK'
  <2>1. NoEvent \in EventRecords
    BY DEF NoEvent, EventRecords
  <2>2. ASSUME Enqueue(e) PROVE event'[e] \in EventRecords
    <3>1. event[e].by \in Procs /\ event[e].secret \in Secrets
      BY <2>2 DEF Enqueue, EventInv
    <3>2. Encrypt(config[event[e].by], event[e].secret) \in Stored
      BY <3>1, Encryption
    <3>3. event[e] \in EventRecords
      OBVIOUS
    <3>4. event'[e] = [event[e] EXCEPT !.at = "queued", !.by = NoSecret, !.secret = NoSecret,
                         !.stored = Encrypt(config[event[e].by], event[e].secret)]
      BY <2>2 DEF Enqueue
    <3> HIDE DEF TypeOK
    <3> QED
      BY <3>2, <3>3, <3>4 DEF EventRecords
  <2>3. ASSUME EndEvent(e) PROVE event'[e] \in EventRecords
    BY <2>1, <2>3 DEF EndEvent
  <2> QED
    BY <1>4, <2>2, <2>3 DEF Enqueue, EndEvent
<1>5. ASSUME NEW p \in Procs, RotateStart(p) PROVE TypeOK'
  BY <1>5 DEF RotateStart, Idle, Calls
<1>6. ASSUME NEW p \in Procs, NEW t \in Tenants, RotateRead(p, t) PROVE TypeOK'
  <2>1. [rot[p] EXCEPT !.at = "locked", !.on = t, !.signing = signing[t], !.hook = hook[t]]
          \in Calls
    <3>1. rot[p] \in Calls /\ signing[t] \in Stored \cup {NoSecret} /\ hook[t] \in Stored \cup {NoSecret}
      OBVIOUS
    <3> QED
      BY <3>1 DEF Calls
  <2> QED
    BY <1>6, <2>1 DEF RotateRead
<1>7. ASSUME NEW p \in Procs, RotateWrite(p) PROVE TypeOK'
  <2> DEFINE r == rot[p]  c == config[p]
  <2>1. r \in Calls /\ c \in Configs /\ r.on \in Tenants /\ r.signing \in Stored
    BY <1>7 DEF RotateWrite, CallInv
  <2>2. rot' \in [Procs -> Calls]
    <3>1. [Idle EXCEPT !.at = "next", !.todo = r.todo \ {r.on},
                       !.failed = r.failed \/ CannotRotate(c, r)] \in Calls
      BY <2>1 DEF Idle, Calls, CannotRotate, ReencryptFails
    <3> QED
      BY <1>7, <3>1 DEF RotateWrite
  <2>3. CASE CannotRotate(c, r)
    BY <1>7, <2>2, <2>3 DEF RotateWrite
  <2>4. CASE ~CannotRotate(c, r)
    <3>1. Reencrypt(c, r.signing) \in Stored
      BY <2>1, <2>4, Reencryption DEF CannotRotate
    <3>2. r.hook # NoSecret => Reencrypt(c, r.hook) \in Stored
      BY <2>1, <2>4, Reencryption DEF CannotRotate
    <3> QED
      BY <1>7, <2>1, <2>2, <2>4, <3>1, <3>2 DEF RotateWrite
  <2> QED
    BY <2>3, <2>4
<1>8. ASSUME NEW p \in Procs, RotateEnd(p) \/ RotateAborts(p) PROVE TypeOK'
  BY <1>8 DEF RotateEnd, RotateAborts
<1>9. ASSUME NEW p \in Procs, Restart(p) PROVE TypeOK'
  <2>1. NoEvent \in EventRecords
    BY DEF NoEvent, EventRecords
  <2> QED
    BY <1>9, <2>1 DEF Restart
<1>10. ASSUME NewKey \/ DropPrevious PROVE TypeOK'
  <2>1. target.current \in Keys /\ target.previous \in Keys /\ 0 \in Keys
    BY LastKeyAssumption DEF Configs, Keys
  <2>2. target.current < LastKey => target.current + 1 \in Keys
    BY <2>1, LastKeyAssumption DEF Keys
  <2>3. target' \in Configs
    BY <1>10, <2>1, <2>2 DEF NewKey, DropPrevious, Choose, Configs
  <2> QED
    BY <1>10, <2>3 DEF NewKey, DropPrevious, Choose
<1>11. CASE UNCHANGED vars
  BY <1>11 DEF vars
<1> QED
  BY <1>1, <1>2, <1>3, <1>4, <1>5, <1>6, <1>7, <1>8, <1>9, <1>10, <1>11 DEF Next, Rotate

-----------------------------------------------------------------------------
(* What the steps of a rotation do to its call and to its tenant.              *)
LEMMA StartEffect ==
  ASSUME TypeOK, NEW p \in Procs, RotateStart(p)
  PROVE  /\ rot'[p].at = "next" /\ rot'[p].todo = Kept(signing)
         /\ \A q \in Procs \ {p} : rot'[q] = rot[q]
  BY DEF TypeOK, RotateStart, Idle, Kept

LEMMA ReadEffect ==
  ASSUME TypeOK, NEW p \in Procs, NEW t \in Tenants, RotateRead(p, t)
  PROVE  /\ rot'[p].at = "locked" /\ rot'[p].on = t /\ rot'[p].todo = rot[p].todo
         /\ rot'[p].failed = rot[p].failed
         /\ rot'[p].signing = signing[t] /\ rot'[p].hook = hook[t]
         /\ \A q \in Procs \ {p} : rot'[q] = rot[q]
<1>1. rot[p] \in Calls /\ rot' = [rot EXCEPT ![p] = rot'[p]]
  BY DEF TypeOK, RotateRead
<1> QED
  BY <1>1 DEF TypeOK, RotateRead, Calls

LEMMA WriteEffect ==
  ASSUME TypeOK, CallInv, NEW p \in Procs, RotateWrite(p)
  PROVE  /\ rot[p].on \in Tenants
         /\ rot'[p].at = "next" /\ rot'[p].todo = rot[p].todo \ {rot[p].on}
         /\ \A q \in Procs \ {p} : rot'[q] = rot[q]
         /\ \/ rot'[p].failed /\ UNCHANGED <<signing, hook>>
            \/ /\ rot'[p].failed = rot[p].failed
               /\ \A t \in Tenants \ {rot[p].on} : signing'[t] = signing[t] /\ hook'[t] = hook[t]
               /\ signing'[rot[p].on] # NoSecret
               /\ signing'[rot[p].on].secret = signing[rot[p].on].secret
               /\ signing'[rot[p].on].key = config[p].current
               /\ IF hook[rot[p].on] = NoSecret
                  THEN hook'[rot[p].on] = NoSecret
                  ELSE /\ hook'[rot[p].on] # NoSecret
                       /\ hook'[rot[p].on].secret = hook[rot[p].on].secret
                       /\ hook'[rot[p].on].key = config[p].current
<1> DEFINE r == rot[p]  c == config[p]  t == r.on
<1>1. /\ r \in Calls /\ c \in Configs /\ t \in Tenants
      /\ r.signing \in Stored /\ r.signing = signing[t]
      /\ r.hook \in Stored \cup {NoSecret} /\ r.hook = hook[t]
  BY CallTypes DEF RotateWrite, TypeOK, CallInv
<1>2. /\ rot'[p].at = "next" /\ rot'[p].todo = r.todo \ {t}
      /\ rot'[p].failed = (r.failed \/ CannotRotate(c, r))
      /\ \A q \in Procs \ {p} : rot'[q] = rot[q]
  BY DEF RotateWrite, TypeOK, Idle
<1>3. CASE CannotRotate(c, r)
  BY <1>1, <1>2, <1>3 DEF RotateWrite
<1>4. CASE ~CannotRotate(c, r)
  <2>1. /\ Reencrypt(c, r.signing) \in Stored
        /\ Reencrypt(c, r.signing).secret = r.signing.secret
        /\ Reencrypt(c, r.signing).key = c.current
    BY <1>1, <1>4, Reencryption DEF CannotRotate
  <2>2. r.hook # NoSecret =>
        /\ Reencrypt(c, r.hook) \in Stored
        /\ Reencrypt(c, r.hook).secret = r.hook.secret
        /\ Reencrypt(c, r.hook).key = c.current
    BY <1>1, <1>4, Reencryption DEF CannotRotate
  <2>3. /\ signing' = [signing EXCEPT ![t] = Reencrypt(c, r.signing)]
        /\ hook' = [hook EXCEPT ![t] = IF r.hook = NoSecret THEN NoSecret ELSE Reencrypt(c, r.hook)]
    BY <1>4 DEF RotateWrite
  <2>4. rot'[p].failed = r.failed
    BY <1>1, <1>2, <1>4, CallTypes
  <2> QED
    BY <1>1, <1>2, <2>1, <2>2, <2>3, <2>4, Values DEF TypeOK
<1> QED
  BY <1>3, <1>4

LEMMA EndEffect ==
  ASSUME TypeOK, NEW p \in Procs, RotateEnd(p) \/ RotateAborts(p) \/ Restart(p)
  PROVE  rot'[p].at = "idle" /\ rot'[p].todo = {} /\ \A q \in Procs \ {p} : rot'[q] = rot[q]
  BY DEF TypeOK, RotateEnd, RotateAborts, Restart, Idle

(* The keys of a new target are other ones than before, and chosen when every  *)
(* process has the old ones.                                                   *)
LEMMA ChoiceEffect ==
  ASSUME TypeOK, ConfigInv, NewKey \/ DropPrevious
  PROVE  /\ \A p \in Procs : config[p] = target
         /\ target' # target /\ ~success'
         /\ UNCHANGED <<config, signing, hook, told, event, rot>>
         /\ \/ target.current \in {target'.current, target'.previous}
                 /\ target.previous \in {0, target'.current, target'.previous}
            \/ success /\ target'.current = target.current
<1>1. /\ target.current \in Nat /\ target.previous \in Nat /\ 0 # target.current + 1
      /\ target.current # target.current + 1
  BY LastKeyAssumption DEF TypeOK, Configs, Keys
<1>2. CASE NewKey
  BY <1>1, <1>2 DEF NewKey, Choose, Deployed
<1>3. CASE DropPrevious
  BY <1>1, <1>3 DEF DropPrevious, Choose, Deployed, ConfigInv
<1> QED
  BY <1>2, <1>3

-----------------------------------------------------------------------------
LEMMA ConfigStep == TypeOK /\ ConfigInv /\ CallInv /\ [Next]_vars => ConfigInv'
<1> SUFFICES ASSUME TypeOK, ConfigInv, CallInv, [Next]_vars PROVE ConfigInv'
  OBVIOUS
<1> USE DEF ConfigInv, Deployed
<1>1. ASSUME UNCHANGED <<config, target, success, rot>> PROVE ConfigInv'
  BY <1>1
<1>2. ASSUME NEW p \in Procs, NEW t \in Tenants,
             \/ CreateTenant(p, t) \/ \E e \in Events : LoadTenant(p, t, e)
             \/ \E s \in Secrets \cup {NoSecret} : SetWebhook(p, t, s)
      PROVE  ConfigInv'
  BY <1>1, <1>2 DEF CreateTenant, LoadTenant, SetWebhook
<1>3. ASSUME NEW e \in Events, Enqueue(e) \/ EndEvent(e) PROVE ConfigInv'
  BY <1>1, <1>3 DEF Enqueue, EndEvent
<1>4. ASSUME NEW p \in Procs, RotateStart(p) PROVE ConfigInv'
  BY <1>4 DEF RotateStart
<1>5. ASSUME NEW p \in Procs, NEW t \in Tenants, RotateRead(p, t) PROVE ConfigInv'
  <2>1. rot[p].at # "idle" /\ UNCHANGED <<config, target, success>>
    BY <1>5 DEF RotateRead
  <2>2. \A q \in Procs : rot'[q].at # "idle" => rot[q].at # "idle"
    BY <1>5, <2>1, ReadEffect
  <2> QED
    BY <2>1, <2>2
<1>6. ASSUME NEW p \in Procs, RotateWrite(p) PROVE ConfigInv'
  <2>1. rot[p].at # "idle" /\ UNCHANGED <<config, target, success>>
    BY <1>6 DEF RotateWrite
  <2>2. \A q \in Procs : rot'[q].at # "idle" => rot[q].at # "idle"
    BY <1>6, <2>1, WriteEffect
  <2> QED
    BY <2>1, <2>2
<1>7. ASSUME NEW p \in Procs, RotateEnd(p) PROVE ConfigInv'
  BY <1>7, EndEffect DEF RotateEnd
<1>8. ASSUME NEW p \in Procs, RotateAborts(p) PROVE ConfigInv'
  BY <1>8, EndEffect DEF RotateAborts
<1>9. ASSUME NEW p \in Procs, Restart(p) PROVE ConfigInv'
  BY <1>9, EndEffect DEF Restart, TypeOK
<1>10. ASSUME NewKey \/ DropPrevious PROVE ConfigInv'
  BY <1>10, ChoiceEffect
<1>11. CASE UNCHANGED vars
  BY <1>1, <1>11 DEF vars
<1> QED
  BY <1>2, <1>3, <1>4, <1>5, <1>6, <1>7, <1>8, <1>9, <1>10, <1>11 DEF Next, Rotate

(* The lock keeps others off the row a rotation has read. *)
LEMMA CallStep == TypeOK /\ ConfigInv /\ CallInv /\ [Next]_vars => CallInv'
<1> SUFFICES ASSUME TypeOK, ConfigInv, CallInv, [Next]_vars PROVE CallInv'
  OBVIOUS
<1> USE DEF CallInv, Kept
<1>1. ASSUME UNCHANGED <<signing, hook, rot>> PROVE CallInv'
  BY <1>1
<1>2. ASSUME NEW p \in Procs, NEW t \in Tenants, CreateTenant(p, t) PROVE CallInv'
  <2>1. Encrypt(config[p], Signing) # NoSecret
    BY Encryption, Values, SecretsAssumption DEF TypeOK
  <2>2. \A q \in Procs : rot[q].at = "locked" => rot[q].on # t
    BY <1>2 DEF CreateTenant
  <2> QED
    BY <1>2, <2>1, <2>2 DEF CreateTenant, TypeOK
<1>3. ASSUME NEW p \in Procs, NEW t \in Tenants, NEW s \in Secrets \cup {NoSecret}, SetWebhook(p, t, s)
      PROVE  CallInv'
  BY <1>3 DEF SetWebhook, TypeOK, Locked
<1>4. ASSUME NEW p \in Procs, RotateStart(p) PROVE CallInv'
  <2>1. UNCHANGED <<signing, hook>>
    BY <1>4 DEF RotateStart
  <2> QED
    BY <1>4, <2>1, StartEffect
<1>5. ASSUME NEW p \in Procs, NEW t \in Tenants, RotateRead(p, t) PROVE CallInv'
  <2>1. UNCHANGED <<signing, hook>> /\ t \in rot[p].todo /\ ~Locked(t)
    BY <1>5 DEF RotateRead
  <2>2. signing[t] # NoSecret
    BY <2>1
  <2> QED
    BY <1>5, <2>1, <2>2, ReadEffect DEF Locked
<1>6. ASSUME NEW p \in Procs, RotateWrite(p) PROVE CallInv'
  <2>1. rot[p].at = "locked"
    BY <1>6 DEF RotateWrite
  <2> QED
    BY <1>6, <2>1, WriteEffect
<1>7. ASSUME NEW p \in Procs, RotateEnd(p) \/ RotateAborts(p) \/ Restart(p) PROVE CallInv'
  <2>1. UNCHANGED <<signing, hook>>
    BY <1>7 DEF RotateEnd, RotateAborts, Restart
  <2> QED
    BY <1>7, <2>1, EndEffect
<1>8. ASSUME NewKey \/ DropPrevious PROVE CallInv'
  BY <1>1, <1>8, ChoiceEffect
<1>9. CASE UNCHANGED vars
  BY <1>1, <1>9 DEF vars
<1>10. ASSUME NEW p \in Procs, NEW t \in Tenants, NEW e \in Events, LoadTenant(p, t, e) PROVE CallInv'
  BY <1>1, <1>10 DEF LoadTenant
<1>11. ASSUME NEW e \in Events, Enqueue(e) \/ EndEvent(e) PROVE CallInv'
  BY <1>1, <1>11 DEF Enqueue, EndEvent
<1> QED
  BY <1>2, <1>3, <1>4, <1>5, <1>6, <1>7, <1>8, <1>9, <1>10, <1>11 DEF Next, Rotate

(* While a rotation runs with the keys being deployed, so does every writer. *)
LEMMA DoneStep == TypeOK /\ ConfigInv /\ CallInv /\ DoneInv /\ [Next]_vars => DoneInv'
<1> SUFFICES ASSUME TypeOK, ConfigInv, CallInv, DoneInv, [Next]_vars PROVE DoneInv'
  OBVIOUS
<1> USE DEF DoneInv, Kept
<1>1. ASSUME UNCHANGED <<config, target, signing, hook, rot>> PROVE DoneInv'
  BY <1>1
<1>2. ASSUME NEW p \in Procs, NEW t \in Tenants, CreateTenant(p, t) PROVE DoneInv'
  <2>1. /\ UNCHANGED <<config, target, hook, rot>> /\ hook[t] = NoSecret
        /\ signing' = [signing EXCEPT ![t] = Encrypt(config[p], Signing)]
    BY <1>2 DEF CreateTenant, CallInv
  <2>2. Encrypt(config[p], Signing).key = config[p].current
    BY Encryption, SecretsAssumption DEF TypeOK
  <2> QED
    BY <2>1, <2>2 DEF ConfigInv, Deployed, TypeOK
<1>3. ASSUME NEW p \in Procs, NEW t \in Tenants, NEW s \in Secrets \cup {NoSecret}, SetWebhook(p, t, s)
      PROVE  DoneInv'
  <2>1. /\ UNCHANGED <<config, target, signing, rot>>
        /\ hook' = [hook EXCEPT ![t] = IF s = NoSecret THEN NoSecret ELSE Encrypt(config[p], s)]
    BY <1>3 DEF SetWebhook
  <2>2. s # NoSecret => Encrypt(config[p], s).key = config[p].current
    BY Encryption DEF TypeOK
  <2> QED
    BY <2>1, <2>2 DEF ConfigInv, Deployed, TypeOK
<1>4. ASSUME NEW p \in Procs, RotateStart(p) PROVE DoneInv'
  <2>1. UNCHANGED <<config, target, signing, hook>>
    BY <1>4 DEF RotateStart
  <2> QED
    BY <1>4, <2>1, StartEffect
<1>5. ASSUME NEW p \in Procs, NEW t \in Tenants, RotateRead(p, t) PROVE DoneInv'
  <2>1. UNCHANGED <<config, target, signing, hook>> /\ rot[p].at # "idle"
    BY <1>5 DEF RotateRead
  <2> QED
    BY <1>5, <2>1, ReadEffect
<1>6. ASSUME NEW p \in Procs, RotateWrite(p) PROVE DoneInv'
  <2>1. UNCHANGED <<config, target>> /\ rot[p].at # "idle"
    BY <1>6 DEF RotateWrite
  <2>2. SUFFICES ASSUME NEW q \in Procs, rot'[q].at # "idle", ~rot'[q].failed, config[q] = target,
                        NEW t \in Tenants, signing'[t] # NoSecret, t \notin rot'[q].todo
                 PROVE  /\ signing'[t].key = target.current
                        /\ hook'[t] # NoSecret => hook'[t].key = target.current
    BY <2>1
  <2>3. rot[q].at # "idle" /\ (q # p => rot'[q] = rot[q])
    BY <1>6, <2>1, <2>2, WriteEffect
  <2>4. config[p].current = target.current
    BY <2>2, <2>3 DEF ConfigInv, Deployed
  <2>5. CASE /\ signing'[t].key = config[p].current
             /\ hook'[t] # NoSecret => hook'[t].key = config[p].current
    BY <2>4, <2>5
  <2>6. CASE signing'[t] = signing[t] /\ hook'[t] = hook[t]
    <3>1. CASE q # p
      BY <2>2, <2>3, <2>6, <3>1
    <3>2. CASE q = p /\ t # rot[p].on
      BY <1>6, <2>2, <2>3, <2>6, <3>2, WriteEffect
    <3>3. CASE q = p /\ t = rot[p].on
      BY <1>6, <2>2, <2>5, <3>3, WriteEffect
    <3> QED
      BY <3>1, <3>2, <3>3
  <2> QED
    BY <1>6, <2>5, <2>6, WriteEffect
<1>7. ASSUME NEW p \in Procs, RotateEnd(p) \/ RotateAborts(p) \/ Restart(p) PROVE DoneInv'
  <2>1. UNCHANGED <<target, signing, hook>> /\ \A q \in Procs \ {p} : config'[q] = config[q]
    BY <1>7 DEF RotateEnd, RotateAborts, Restart, TypeOK
  <2> QED
    BY <1>7, <2>1, EndEffect
<1>8. ASSUME NewKey \/ DropPrevious PROVE DoneInv'
  BY <1>8, ChoiceEffect
<1>9. CASE UNCHANGED vars
  BY <1>1, <1>9 DEF vars
<1>10. ASSUME NEW p \in Procs, NEW t \in Tenants, NEW e \in Events, LoadTenant(p, t, e) PROVE DoneInv'
  BY <1>1, <1>10 DEF LoadTenant
<1>11. ASSUME NEW e \in Events, Enqueue(e) \/ EndEvent(e) PROVE DoneInv'
  BY <1>1, <1>11 DEF Enqueue, EndEvent
<1> QED
  BY <1>2, <1>3, <1>4, <1>5, <1>6, <1>7, <1>8, <1>9, <1>10, <1>11 DEF Next, Rotate

-----------------------------------------------------------------------------
Safety == TenantSecretsReadable /\ SuccessMeansRotated /\ SecretsAreKept

LEMMA SafetyStep == IInv /\ [Next]_vars => Safety'
<1> SUFFICES ASSUME IInv, [Next]_vars PROVE Safety'
  OBVIOUS
<1> USE DEF IInv, Safety, TenantSecretsReadable, SuccessMeansRotated, SecretsAreKept, Kept, Readable
<1>1. ASSUME UNCHANGED <<target, success, signing, hook, told>> PROVE Safety'
  BY <1>1
<1>2. ASSUME NEW p \in Procs, NEW t \in Tenants, CreateTenant(p, t) PROVE Safety'
  <2>1. /\ UNCHANGED <<target, success, hook, told>>
        /\ signing' = [signing EXCEPT ![t] = Encrypt(config[p], Signing)]
    BY <1>2 DEF CreateTenant
  <2>2. /\ Encrypt(config[p], Signing).key = config[p].current
        /\ Encrypt(config[p], Signing).secret = Signing
    BY Encryption, SecretsAssumption DEF TypeOK
  <2> QED
    BY <2>1, <2>2 DEF ConfigInv, Deployed, TypeOK
<1>3. ASSUME NEW p \in Procs, NEW t \in Tenants, NEW s \in Secrets \cup {NoSecret}, SetWebhook(p, t, s)
      PROVE  Safety'
  <2>1. /\ UNCHANGED <<target, success, signing>> /\ told' = [told EXCEPT ![t] = s]
        /\ hook' = [hook EXCEPT ![t] = IF s = NoSecret THEN NoSecret ELSE Encrypt(config[p], s)]
    BY <1>3 DEF SetWebhook
  <2>2. s # NoSecret => /\ Encrypt(config[p], s).key = config[p].current
                        /\ Encrypt(config[p], s).secret = s
                        /\ Encrypt(config[p], s) # NoSecret
    BY Encryption, Values DEF TypeOK
  <2> QED
    BY <2>1, <2>2 DEF ConfigInv, Deployed, TypeOK
<1>4. ASSUME NEW p \in Procs, RotateWrite(p) PROVE Safety'
  <2>1. UNCHANGED <<target, success, told>> /\ config[p].current \in {0, target.current, target.previous}
    BY <1>4 DEF RotateWrite, ConfigInv
  <2>2. success => config[p].current = target.current
    BY DEF ConfigInv, Deployed
  <2>3. signing[rot[p].on] # NoSecret
    BY <1>4 DEF RotateWrite, CallInv
  <2> QED
    BY <1>4, <2>1, <2>2, <2>3, WriteEffect
<1>5. ASSUME NEW p \in Procs, RotateEnd(p) PROVE Safety'
  <2>1. UNCHANGED <<config, target, signing, hook, told>> /\ rot[p].at # "idle" /\ rot[p].todo = {}
    BY <1>5 DEF RotateEnd
  <2>2. success' => success \/ (~rot[p].failed /\ config[p] = target)
    BY <1>5 DEF RotateEnd
  <2>3. \A t \in Kept(hook) : t \in Kept(signing)
    BY DEF CallInv
  <2> QED
    BY <2>1, <2>2, <2>3 DEF DoneInv
<1>6. ASSUME NewKey \/ DropPrevious PROVE Safety'
  BY <1>6, ChoiceEffect
<1>7. ASSUME NEW p \in Procs,
             \/ RotateStart(p) \/ RotateAborts(p) \/ Restart(p)
             \/ \E t \in Tenants : RotateRead(p, t) \/ \E e \in Events : LoadTenant(p, t, e)
      PROVE  Safety'
  BY <1>1, <1>7 DEF RotateStart, RotateAborts, Restart, RotateRead, LoadTenant
<1>8. ASSUME NEW e \in Events, Enqueue(e) \/ EndEvent(e) PROVE Safety'
  BY <1>1, <1>8 DEF Enqueue, EndEvent
<1>9. CASE UNCHANGED vars
  BY <1>1, <1>9 DEF vars
<1> QED
  BY <1>2, <1>3, <1>4, <1>5, <1>6, <1>7, <1>8, <1>9 DEF Next, Rotate

(* Rotations, webhooks and deployments leave the events on their way alone; a   *)
(* key that is queued under stays among those in use or dropped.                *)
LEMMA EventStep == IInv /\ [Next]_vars => (EventInv /\ KeyOrder)'
<1> SUFFICES ASSUME IInv, [Next]_vars PROVE (EventInv /\ KeyOrder)'
  OBVIOUS
<1> USE DEF IInv, EventInv, KeyOrder
<1>1. ASSUME UNCHANGED target, \A e \in Events : event'[e] = NoEvent \/ event'[e] = event[e]
      PROVE  (EventInv /\ KeyOrder)'
  BY <1>1 DEF NoEvent
<1>2. ASSUME NEW p \in Procs, NEW t \in Tenants, NEW e \in Events, LoadTenant(p, t, e)
      PROVE  (EventInv /\ KeyOrder)'
  <2>1. hook[t] \in Stored /\ config[p] \in Configs /\ Decrypt(config[p], hook[t]) \in Secrets
    BY <1>2, Decryption DEF LoadTenant, TypeOK
  <2>2. config[p] = target => Decrypt(config[p], hook[t]) = hook[t].secret
    BY <2>1, Values DEF TenantSecretsReadable, Kept, Decrypt
  <2>3. /\ event'[e].at = "loaded" /\ event'[e].by = p
        /\ event'[e].secret = Decrypt(config[p], hook[t])
        /\ event'[e].was = hook[t].secret /\ event'[e].fresh = (config[p] = target)
        /\ \A f \in Events \ {e} : event'[f] = event[f]
        /\ UNCHANGED target
    BY <1>2 DEF LoadTenant, TypeOK
  <2> QED
    BY <2>1, <2>2, <2>3
<1>3. ASSUME NEW e \in Events, Enqueue(e) PROVE (EventInv /\ KeyOrder)'
  <2> DEFINE p == event[e].by  v == Encrypt(config[p], event[e].secret)
  <2>1. p \in Procs /\ event[e].secret \in Secrets /\ config[p] \in Configs
    BY <1>3 DEF Enqueue, TypeOK
  <2>2. v \in Stored /\ v.secret = event[e].secret /\ v.key = config[p].current
    BY <2>1, Encryption
  <2>3. config[p].current <= target.current
    BY <2>1, LastKeyAssumption DEF ConfigInv, TypeOK, Configs, Keys
  <2>4. event[e] \in EventRecords
    BY DEF TypeOK
  <2>5. /\ event'[e].at = "queued" /\ event'[e].stored = v
        /\ event'[e].was = event[e].was /\ event'[e].fresh = event[e].fresh
        /\ \A f \in Events \ {e} : event'[f] = event[f]
        /\ UNCHANGED target
    BY <1>3, <2>4 DEF Enqueue, TypeOK, EventRecords
  <2>6. event[e].at = "loaded"
    BY <1>3 DEF Enqueue
  <2> HIDE DEF v, p
  <2> QED
    BY <2>1, <2>2, <2>3, <2>5, <2>6
<1>4. ASSUME NEW e \in Events, EndEvent(e) PROVE (EventInv /\ KeyOrder)'
  BY <1>1, <1>4 DEF EndEvent, TypeOK
<1>5. ASSUME NEW p \in Procs, Restart(p) PROVE (EventInv /\ KeyOrder)'
  BY <1>1, <1>5 DEF Restart
<1>6. ASSUME NewKey \/ DropPrevious PROVE (EventInv /\ KeyOrder)'
  <2>1. target.current \in Nat /\ target.previous \in Nat
    BY LastKeyAssumption DEF TypeOK, Configs, Keys
  <2>2. /\ target'.current \in Nat /\ target.current <= target'.current
        /\ target'.previous <= target'.current /\ UNCHANGED event
    BY <1>6, <2>1 DEF NewKey, DropPrevious, Choose
  <2>3. \A v \in Stored : v.key <= target.current => v.key <= target'.current
    BY <2>1, <2>2, Values, LastKeyAssumption DEF Keys
  <2> QED
    BY <2>2, <2>3
<1>7. ASSUME NEW p \in Procs, Rotate(p) PROVE (EventInv /\ KeyOrder)'
  BY <1>1, <1>7 DEF Rotate, RotateStart, RotateRead, RotateWrite, RotateEnd, RotateAborts
<1>8. ASSUME NEW p \in Procs, NEW t \in Tenants,
             CreateTenant(p, t) \/ \E s \in Secrets \cup {NoSecret} : SetWebhook(p, t, s)
      PROVE  (EventInv /\ KeyOrder)'
  BY <1>1, <1>8 DEF CreateTenant, SetWebhook
<1>9. CASE UNCHANGED vars
  BY <1>1, <1>9 DEF vars
<1> QED
  BY <1>2, <1>3, <1>4, <1>5, <1>6, <1>7, <1>8, <1>9 DEF Next

-----------------------------------------------------------------------------
LEMMA Inductive == Spec => []IInv
<1>1. Init => IInv
  <2> SUFFICES ASSUME Init PROVE IInv
    OBVIOUS
  <2>1. target \in Configs /\ config = [p \in Procs |-> target]
    BY LastKeyAssumption DEF Init, Configs, Keys
  <2>2. NoEvent \in EventRecords /\ event = [e \in Events |-> NoEvent] /\ EventInv
    BY DEF Init, NoEvent, EventRecords, EventInv
  <2>3. KeyOrder
    BY LastKeyAssumption DEF Init, KeyOrder, Keys
  <2> QED
    BY <2>1, <2>2, <2>3, CallTypes DEF Init, IInv, TypeOK, ConfigInv, CallInv, DoneInv,
         TenantSecretsReadable, SuccessMeansRotated, SecretsAreKept, Kept, Idle, Deployed
<1>2. IInv /\ [Next]_vars => IInv'
  BY TypeStep, ConfigStep, CallStep, DoneStep, SafetyStep, EventStep
     DEF IInv, Safety
<1> QED
  BY <1>1, <1>2, PTL DEF Spec

(* Type correctness of Rotation. *)
THEOREM TypeCorrect == Spec => []TypeOK
  BY Inductive, PTL DEF IInv

(* Whatever the operator does within the procedure, and however processes,     *)
(* rotations and admins interleave, no tenant's secret becomes unreadable.     *)
THEOREM SecretsStayReadable == Spec => []TenantSecretsReadable
  BY Inductive, PTL DEF IInv

(* rotate_secrets reports no false success. *)
THEOREM SuccessIsTrue == Spec => []SuccessMeansRotated
  BY Inductive, PTL DEF IInv

(* rotate_secrets neither clobbers nor loses a secret. *)
THEOREM SecretsSurvive == Spec => []SecretsAreKept
  BY Inductive, PTL DEF IInv

(* A queued event is signed with the secret its tenant had when its request    *)
(* began, unless that ran in a process still to be restarted or the key it was *)
(* queued under has been dropped.                                              *)
THEOREM EventsCarryTheirSecret == Spec => []EventsAreSigned
<1>1. IInv => EventsAreSigned
  <2> SUFFICES ASSUME IInv, NEW e \in Events, NEW p \in Procs,
                      event[e].at = "queued", event[e].fresh,
                      event[e].stored.key \notin Dropped, config[p] = target
               PROVE  Decrypt(config[p], event[e].stored) = event[e].was
    BY DEF EventsAreSigned
  <2> DEFINE v == event[e].stored
  <2>1. v \in Stored /\ v.key <= target.current /\ v.secret = event[e].was
    BY DEF IInv, EventInv
  <2>2. v.key \in Nat /\ target.current \in Nat
    BY <2>1, Values, LastKeyAssumption DEF IInv, TypeOK, Configs, Keys
  <2> HIDE DEF v
  <2>3. v.key \in {0, target.current} \/ v.key \in 1 .. target.current - 1
    BY <2>1, <2>2
  <2>4. v.key \notin Dropped
    BY DEF v
  <2>5. Readable(config[p], v)
    BY <2>3, <2>4 DEF Readable, Dropped
  <2> QED
    BY <2>1, <2>5 DEF Decrypt, v
<1> QED
  BY <1>1, Inductive, PTL
=============================================================================
