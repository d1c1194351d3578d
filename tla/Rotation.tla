------------------------------ MODULE Rotation ------------------------------
(***************************************************************************)
(* Tenant secrets at rest: which master key each stored secret is under,   *)
(* while an operator deploys keys to the running processes one by one and  *)
(* an admin provisions tenants, sets webhooks and calls rotate_secrets,   *)
(* and requests queue events that are signed much later.                   *)
(***************************************************************************)
EXTENDS Naturals, FiniteSets

CONSTANTS
  Procs, Tenants,
  Events,        \* bound: the events that are on their way at once
  LastKey,       \* master keys are 1 .. LastKey in the order of their use, 0 is none
  Secrets,       \* secrets in clear, one of them empty
  Empty, Signing,
  NoSecret

ASSUME LastKeyAssumption == LastKey \in Nat
ASSUME SecretsAssumption == Empty \in Secrets /\ Signing \in Secrets \ {Empty}

Keys == 0 .. LastKey
Configs == [current : Keys, previous : Keys]

(* A value of a secret column: key 0 is a value without the enc:v1: prefix.    *)
Stored == [secret : Secrets, key : Keys]
ASSUME NoSecretAssumption == NoSecret \notin Stored \cup Secrets

VARIABLES
  config,    \* MASTER_KEY and MASTER_KEY_PREVIOUS of each running process
  target,    \* what the operator deploys
  success,   \* rotate_secrets has succeeded since target was chosen
  signing,   \* tenants.signing_secret_enc
  hook,      \* tenants.webhook_secret
  told,      \* the webhook secret set_webhook returned last
  event,     \* the events of requests and of pending webhook_deliveries
  rot        \* the call of rotate_secrets each process runs

vars == <<config, target, success, signing, hook, told, event, rot>>

Idle == [at |-> "idle", on |-> NoSecret, todo |-> {}, failed |-> FALSE,
         signing |-> NoSecret, hook |-> NoSecret]

Calls == [at : {"idle", "next", "locked"}, on : Tenants \cup {NoSecret},
          todo : SUBSET Tenants, failed : BOOLEAN,
          signing : Stored \cup {NoSecret}, hook : Stored \cup {NoSecret}]

(* An event is loaded with its tenant in the extractors and queued later.  was *)
(* and fresh are history: the secret of the tenant then, and whether the       *)
(* process that loaded it ran with the keys being deployed.                    *)
NoEvent == [at |-> "none", by |-> NoSecret, secret |-> NoSecret, stored |-> NoSecret,
            was |-> NoSecret, fresh |-> FALSE]

EventRecords == [at : {"none", "loaded", "queued"}, by : Procs \cup {NoSecret},
                 secret : Secrets \cup {NoSecret}, stored : Stored \cup {NoSecret},
                 was : Secrets \cup {NoSecret}, fresh : BOOLEAN]

TypeOK ==
  /\ config \in [Procs -> Configs]
  /\ target \in Configs
  /\ success \in BOOLEAN
  /\ signing \in [Tenants -> Stored \cup {NoSecret}]
  /\ hook \in [Tenants -> Stored \cup {NoSecret}]
  /\ told \in [Tenants -> Secrets \cup {NoSecret}]
  /\ event \in [Events -> EventRecords]
  /\ rot \in [Procs -> Calls]

Init ==
  /\ target \in {[current |-> k, previous |-> 0] : k \in Keys}
  /\ config = [p \in Procs |-> target]
  /\ success = FALSE
  /\ signing = [t \in Tenants |-> NoSecret]
  /\ hook = [t \in Tenants |-> NoSecret]
  /\ told = [t \in Tenants |-> NoSecret]
  /\ event = [e \in Events |-> NoEvent]
  /\ rot = [p \in Procs |-> Idle]

-----------------------------------------------------------------------------
(* `Secrets`.  A configured key has a number above 0.                          *)

Readable(c, v) == v.key \in {0, c.current, c.previous}

Encrypt(c, s) == [secret |-> s, key |-> c.current]

(* A seeded fault: the previous key is not tried. *)
DecryptCurrent(c, v) == IF v.key \in {0, c.current} THEN v.secret ELSE Empty

Decrypt(c, v) == IF Readable(c, v) THEN v.secret ELSE Empty

(* None is returned when the decrypted value is empty, for whatever reason.    *)
ReencryptFails(c, v) == v.key # 0 /\ Decrypt(c, v) = Empty

Reencrypt(c, v) == Encrypt(c, Decrypt(c, v))

(* A seeded fault: SELECT without FOR UPDATE. *)
LocksNothing(t) == FALSE

(* A tenant's row is locked by the rotation that is about to write it.         *)
Locked(t) == \E p \in Procs : rot[p].at = "locked" /\ rot[p].on = t

Deployed == \A p \in Procs : config[p] = target

-----------------------------------------------------------------------------
(* Handlers.                                                                   *)

(* `tenants::create_tenant` *)
CreateTenant(p, t) ==
  /\ signing[t] = NoSecret
  /\ signing' = [signing EXCEPT ![t] = Encrypt(config[p], Signing)]
  /\ UNCHANGED <<config, target, success, hook, told, event, rot>>

(* A seeded fault: clearing a webhook encrypts nothing. *)
SetWebhookAlways(p, t, s) ==
  /\ signing[t] # NoSecret /\ ~Locked(t)
  /\ hook' = [hook EXCEPT ![t] = Encrypt(config[p], s)]
  /\ told' = [told EXCEPT ![t] = s]
  /\ UNCHANGED <<config, target, success, signing, event, rot>>

(* `tenants::set_webhook`: waits for a rotation that has locked the tenant.    *)
SetWebhook(p, t, s) ==
  /\ signing[t] # NoSecret /\ ~Locked(t)
  /\ hook' = [hook EXCEPT ![t] = IF s = NoSecret THEN NoSecret ELSE Encrypt(config[p], s)]
  /\ told' = [told EXCEPT ![t] = s]
  /\ UNCHANGED <<config, target, success, signing, event, rot>>

(* The extractors load the tenant of a request, with its webhook and secrets in
   clear.  Without a webhook there is no event. *)
LoadTenant(p, t, e) ==
  /\ event[e].at = "none"
  /\ hook[t] # NoSecret
  /\ event' = [event EXCEPT ![e] =
       [at |-> "loaded", by |-> p, secret |-> Decrypt(config[p], hook[t]), stored |-> NoSecret,
        was |-> hook[t].secret, fresh |-> config[p] = target]]
  /\ UNCHANGED <<config, target, success, signing, hook, told, rot>>

(* `webhooks::enqueue`, in the transaction at the end of the request. *)
Enqueue(e) ==
  /\ event[e].at = "loaded"
  /\ event' = [event EXCEPT ![e] =
       [@ EXCEPT !.at = "queued", !.by = NoSecret, !.secret = NoSecret,
                 !.stored = Encrypt(config[event[e].by], event[e].secret)]]
  /\ UNCHANGED <<config, target, success, signing, hook, told, rot>>

(* The request fails before its transaction commits, or `webhooks::deliver` has
   had the last word on the delivery. *)
EndEvent(e) ==
  /\ event[e].at # "none"
  /\ event' = [event EXCEPT ![e] = NoEvent]
  /\ UNCHANGED <<config, target, success, signing, hook, told, rot>>

-----------------------------------------------------------------------------
(* `tenants::rotate_secrets`, called once the new keys are deployed.           *)

RotateStart(p) ==
  /\ rot[p].at = "idle"
  /\ config[p].current # 0
  /\ Deployed
  /\ rot' = [rot EXCEPT ![p] =
       [Idle EXCEPT !.at = "next", !.todo = {t \in Tenants : signing[t] # NoSecret}]]
  /\ UNCHANGED <<config, target, success, signing, hook, told, event>>

(* SELECT ... FOR UPDATE *)
RotateRead(p, t) ==
  /\ rot[p].at = "next" /\ t \in rot[p].todo
  /\ ~Locked(t)
  /\ rot' = [rot EXCEPT ![p] =
       [@ EXCEPT !.at = "locked", !.on = t, !.signing = signing[t], !.hook = hook[t]]]
  /\ UNCHANGED <<config, target, success, signing, hook, told, event>>

CannotRotate(c, r) ==
  \/ ReencryptFails(c, r.signing)
  \/ r.hook # NoSecret /\ ReencryptFails(c, r.hook)

(* UPDATE and commit, or roll back and count a failure. *)
RotateWrite(p) ==
  LET r == rot[p]
      c == config[p] IN
  /\ r.at = "locked"
  /\ \/ /\ CannotRotate(c, r)
        /\ UNCHANGED <<signing, hook>>
     \/ /\ ~CannotRotate(c, r)
        /\ signing' = [signing EXCEPT ![r.on] = Reencrypt(c, r.signing)]
        /\ hook' = [hook EXCEPT ![r.on] =
             IF r.hook = NoSecret THEN NoSecret ELSE Reencrypt(c, r.hook)]
  /\ rot' = [rot EXCEPT ![p] =
       [Idle EXCEPT !.at = "next", !.todo = r.todo \ {r.on},
                    !.failed = r.failed \/ CannotRotate(c, r)]]
  /\ UNCHANGED <<config, target, success, told, event>>

(* A seeded fault: success is reported whatever failed. *)
RotateEndAlways(p) ==
  /\ rot[p].at = "next" /\ rot[p].todo = {}
  /\ success' = (success \/ config[p] = target)
  /\ rot' = [rot EXCEPT ![p] = Idle]
  /\ UNCHANGED <<config, target, signing, hook, told, event>>

(* The operator takes a success for the keys the process runs with. *)
RotateEnd(p) ==
  /\ rot[p].at = "next" /\ rot[p].todo = {}
  /\ success' = (success \/ (~rot[p].failed /\ config[p] = target))
  /\ rot' = [rot EXCEPT ![p] = Idle]
  /\ UNCHANGED <<config, target, signing, hook, told, event>>

(* A database error or a dropped request: tenants done so far stay rotated. *)
RotateAborts(p) ==
  /\ rot[p].at # "idle"
  /\ rot' = [rot EXCEPT ![p] = Idle]
  /\ UNCHANGED <<config, target, success, signing, hook, told, event>>

-----------------------------------------------------------------------------
(* The operator.                                                               *)

Choose(c) ==
  /\ target' = c
  /\ success' = FALSE
  /\ UNCHANGED <<config, signing, hook, told, event, rot>>

(* A new MASTER_KEY with the old one in MASTER_KEY_PREVIOUS. *)
NewKey ==
  /\ Deployed /\ target.previous = 0 /\ target.current < LastKey
  /\ Choose([current |-> target.current + 1, previous |-> target.current])

(* "Once this completes for all tenants you can drop MASTER_KEY_PREVIOUS" *)
DropPrevious ==
  /\ success /\ target.previous # 0
  /\ Choose([current |-> target.current, previous |-> 0])

(* A process is restarted with the new environment; its requests are over. *)
Restart(p) ==
  /\ config[p] # target
  /\ config' = [config EXCEPT ![p] = target]
  /\ rot' = [rot EXCEPT ![p] = Idle]
  /\ event' = [e \in Events |-> IF event[e].by = p THEN NoEvent ELSE event[e]]
  /\ UNCHANGED <<target, success, signing, hook, told>>

Rotate(p) ==
  \/ RotateStart(p) \/ RotateWrite(p) \/ RotateEnd(p) \/ RotateAborts(p)
  \/ \E t \in Tenants : RotateRead(p, t)

Next ==
  \/ \E p \in Procs : Rotate(p) \/ Restart(p)
  \/ \E p \in Procs, t \in Tenants :
       \/ CreateTenant(p, t) \/ \E e \in Events : LoadTenant(p, t, e)
       \/ \E s \in Secrets \cup {NoSecret} : SetWebhook(p, t, s)
  \/ \E e \in Events : Enqueue(e) \/ EndEvent(e)
  \/ NewKey \/ DropPrevious

Spec == Init /\ [][Next]_vars

-----------------------------------------------------------------------------
(* Properties.                                                                 *)

Kept(column) == {t \in Tenants : column[t] # NoSecret}

(* At every moment of a rolling deployment, of a rotation and of its retries,  *)
(* the keys being deployed read every tenant's secrets.                        *)
TenantSecretsReadable ==
  /\ \A t \in Kept(signing) : Readable(target, signing[t])
  /\ \A t \in Kept(hook) : Readable(target, hook[t])

(* rotate_secrets never reports a false success: once it has returned success  *)
(* every secret is and stays under the current key, secrets written meanwhile  *)
(* included.                                                                   *)
SuccessMeansRotated ==
  success =>
    /\ \A t \in Kept(signing) : signing[t].key = target.current
    /\ \A t \in Kept(hook) : hook[t].key = target.current

(* A rotation never clobbers a concurrent set_webhook and never loses a value  *)
(* it cannot read: what is stored is what the admin was told.                  *)
SecretsAreKept ==
  /\ \A t \in Kept(signing) : signing[t].secret = Signing
  /\ \A t \in Tenants : told[t] = IF hook[t] = NoSecret THEN NoSecret ELSE hook[t].secret

(* Keys that were in use once and that the operator has dropped.               *)
Dropped == {k \in 1 .. target.current - 1 : k # target.previous}

(* A queued event is signed with the secret its tenant had when its request    *)
(* began, whatever webhooks, rotations and deployments came in between and     *)
(* since, and by whichever process that has the keys being deployed.  There    *)
(* are two exceptions: its request ran in a process that was still to be       *)
(* restarted and could not read the secret; and the key it was queued under    *)
(* has been dropped, for no rotation reaches the queue.                        *)
EventsAreSigned ==
  \A e \in Events, p \in Procs :
    /\ event[e].at = "queued" /\ event[e].fresh
    /\ event[e].stored.key \notin Dropped
    /\ config[p] = target
    => Decrypt(config[p], event[e].stored) = event[e].was
=============================================================================
