------------------------------ MODULE Webhooks ------------------------------
(***************************************************************************)
(* The durable delivery queue.  A file transaction enqueues a row of       *)
(* webhook_deliveries; each instance runs one worker that claims a batch   *)
(* of due rows under a lease, posts them concurrently and records each     *)
(* outcome in a statement of its own, none of which looks at the row's     *)
(* status.  Workers crash, a post's answer may be lost, and the statement  *)
(* that records an outcome may fail, which the worker ignores.             *)
(***************************************************************************)
EXTENDS Naturals, FiniteSets

CONSTANTS
  Deliveries,     \* rows of webhook_deliveries
  Workers,        \* one per instance
  MaxAttempts,    \* MAX_ATTEMPTS
  Batch,          \* BATCH
  LeaseOutlasts   \* whether a lease outlasts every worker's batch, see Elapse

ASSUME DeliveriesAssumption == IsFiniteSet(Deliveries)
ASSUME BoundsAssumption == MaxAttempts \in Nat \ {0} /\ Batch \in Nat \ {0}
ASSUME LeaseAssumption == LeaseOutlasts \subseteq BOOLEAN

VARIABLES
  lease,      \* the member of LeaseOutlasts that holds in this behaviour
  status,     \* webhook_deliveries.status, "none" before the insert
  attempts,   \* webhook_deliveries.attempts, exact up to MaxAttempts
  due,        \* the rows whose next_attempt_at has passed
  job,        \* what each worker is doing with each row
  tries,      \* the attempt number its claim returned for each row
  received,   \* the events some endpoint has processed
  refused     \* the rows whose target the SSRF guard has refused

vars == <<lease, status, attempts, due, job, tries, received, refused>>

Jobs == {"none", "claimed", "accepted", "rejected", "refused"}

(* The rows a worker is at. *)
Held(w) == {d \in Deliveries : job[w][d] # "none"}

(* Every variable has its type, and no worker has more than BATCH posts open   *)
(* at once: it takes no rows while its last batch is under way.                *)
TypeOK ==
  /\ lease \in LeaseOutlasts
  /\ status \in [Deliveries -> {"none", "pending", "delivered", "failed"}]
  /\ attempts \in [Deliveries -> 0 .. MaxAttempts]
  /\ due \subseteq Deliveries
  /\ job \in [Workers -> [Deliveries -> Jobs]]
  /\ tries \in [Workers -> [Deliveries -> 0 .. MaxAttempts]]
  /\ received \subseteq Deliveries
  /\ refused \subseteq Deliveries
  /\ \A w \in Workers : Cardinality(Held(w)) <= Batch

Init ==
  /\ lease \in LeaseOutlasts
  /\ status = [d \in Deliveries |-> "none"]
  /\ attempts = [d \in Deliveries |-> 0]
  /\ due = {}
  /\ job = [w \in Workers |-> [d \in Deliveries |-> "none"]]
  /\ tries = [w \in Workers |-> [d \in Deliveries |-> 0]]
  /\ received = {} /\ refused = {}

(* attempts + 1; only its comparison with MaxAttempts matters. *)
Incremented(n) == IF n < MaxAttempts THEN n + 1 ELSE n

Idle(w) == \A d \in Deliveries : job[w][d] = "none"

(* A seeded fault: rows at the limit are left alone, as if another worker were
   sure to finish them. *)
ClaimableBelowLimit ==
  {d \in due : status[d] = "pending" /\ attempts[d] < MaxAttempts}

Claimable == {d \in due : status[d] = "pending"}

(* The row's transaction commits: `enqueue`. *)
Enqueue(d) ==
  /\ status[d] = "none"
  /\ status' = [status EXCEPT ![d] = "pending"]
  /\ due' = due \cup {d}
  /\ UNCHANGED <<lease, attempts, job, tries, received, refused>>

(* A seeded fault: next_attempt_at is not pushed out. *)
ClaimUnleased(w, S) ==
  /\ Idle(w)
  /\ S # {} /\ S \subseteq Claimable
  /\ Cardinality(S) = Batch \/ (Cardinality(S) < Batch /\ S = Claimable)
  /\ attempts' = [d \in Deliveries |->
                    IF d \in S THEN Incremented(attempts[d]) ELSE attempts[d]]
  /\ job' = [job EXCEPT ![w] = [d \in Deliveries |-> IF d \in S THEN "claimed" ELSE "none"]]
  /\ tries' = [tries EXCEPT ![w] = [d \in Deliveries |-> IF d \in S THEN attempts'[d] ELSE 0]]
  /\ UNCHANGED <<lease, status, due, received, refused>>

(* A seeded fault: the claim has no LIMIT. *)
ClaimUnlimited(w, S) ==
  /\ Idle(w)
  /\ S # {} /\ S = Claimable
  /\ attempts' = [d \in Deliveries |->
                    IF d \in S THEN Incremented(attempts[d]) ELSE attempts[d]]
  /\ due' = due \ S
  /\ job' = [job EXCEPT ![w] = [d \in Deliveries |-> IF d \in S THEN "claimed" ELSE "none"]]
  /\ tries' = [tries EXCEPT ![w] = [d \in Deliveries |-> IF d \in S THEN attempts'[d] ELSE 0]]
  /\ UNCHANGED <<lease, status, received, refused>>

(* `process_batch` takes up to Batch due rows, none while its last batch is
   still being posted.  Rows of a concurrent claim are skipped. *)
Claim(w, S) ==
  /\ Idle(w)
  /\ S # {} /\ S \subseteq Claimable
  /\ Cardinality(S) = Batch \/ (Cardinality(S) < Batch /\ S = Claimable)
  /\ attempts' = [d \in Deliveries |->
                    IF d \in S THEN Incremented(attempts[d]) ELSE attempts[d]]
  /\ due' = due \ S
  /\ job' = [job EXCEPT ![w] = [d \in Deliveries |-> IF d \in S THEN "claimed" ELSE "none"]]
  /\ tries' = [tries EXCEPT ![w] = [d \in Deliveries |-> IF d \in S THEN attempts'[d] ELSE 0]]
  /\ UNCHANGED <<lease, status, received, refused>>

(* `deliver`: the SSRF guard refuses the target. *)
Refuse(w, d) ==
  /\ job[w][d] = "claimed"
  /\ job' = [job EXCEPT ![w][d] = "refused"]
  /\ refused' = refused \cup {d}
  /\ UNCHANGED <<lease, status, attempts, due, tries, received>>

(* The endpoint answers 2xx, or something else, or its answer is lost. *)
Accepted(w, d) ==
  /\ job[w][d] = "claimed"
  /\ job' = [job EXCEPT ![w][d] = "accepted"]
  /\ received' = received \cup {d}
  /\ UNCHANGED <<lease, status, attempts, due, tries, refused>>

Rejected(w, d) ==
  /\ job[w][d] = "claimed"
  /\ job' = [job EXCEPT ![w][d] = "rejected"]
  /\ \/ UNCHANGED received
     \/ received' = received \cup {d}
  /\ UNCHANGED <<lease, status, attempts, due, tries, refused>>

(* The worker is done with the row, whatever became of its outcome. *)
Finish(w, d) ==
  /\ job' = [job EXCEPT ![w][d] = "none"]
  /\ tries' = [tries EXCEPT ![w][d] = 0]
  /\ UNCHANGED <<lease, attempts, received, refused>>

(* A seeded fault: any answer counts as success. *)
RecordDeliveredAlways(w, d) ==
  /\ job[w][d] \in {"accepted", "rejected"}
  /\ status' = [status EXCEPT ![d] = "delivered"]
  /\ Finish(w, d)
  /\ UNCHANGED due

(* UPDATE ... SET status = 'delivered' WHERE id *)
RecordDelivered(w, d) ==
  /\ job[w][d] = "accepted"
  /\ status' = [status EXCEPT ![d] = "delivered"]
  /\ Finish(w, d)
  /\ UNCHANGED due

(* A seeded fault: off by one. *)
RecordFailedEarly(w, d) ==
  /\ \/ job[w][d] = "refused"
     \/ job[w][d] = "rejected" /\ tries[w][d] + 1 >= MaxAttempts
  /\ status' = [status EXCEPT ![d] = "failed"]
  /\ Finish(w, d)
  /\ UNCHANGED due

(* `mark_failed` *)
RecordFailed(w, d) ==
  /\ \/ job[w][d] = "refused"
     \/ job[w][d] = "rejected" /\ tries[w][d] >= MaxAttempts
  /\ status' = [status EXCEPT ![d] = "failed"]
  /\ Finish(w, d)
  /\ UNCHANGED due

(* UPDATE ... SET next_attempt_at = now + backoff_secs(attempts) *)
RecordBackoff(w, d) ==
  /\ job[w][d] = "rejected" /\ tries[w][d] < MaxAttempts
  /\ due' = due \ {d}
  /\ Finish(w, d)
  /\ UNCHANGED status

(* The recording statement fails: `let _ =`. *)
RecordLost(w, d) ==
  /\ job[w][d] \in {"accepted", "refused", "rejected"}
  /\ Finish(w, d)
  /\ UNCHANGED <<status, due>>

(* The instance dies, or is stopped before its batch drains, and restarts. *)
Crash(w) ==
  /\ ~Idle(w)
  /\ job' = [job EXCEPT ![w] = [d \in Deliveries |-> "none"]]
  /\ tries' = [tries EXCEPT ![w] = [d \in Deliveries |-> 0]]
  /\ UNCHANGED <<lease, status, attempts, due, received, refused>>

(* next_attempt_at passes, be it a lease or a backoff.  CLAIM_LEASE_SECS is
   meant to exceed the time any batch takes: then it passes only when no worker
   is at the row. *)
Elapse(d) ==
  /\ status[d] = "pending" /\ d \notin due
  /\ lease => \A w \in Workers : job[w][d] = "none"
  /\ due' = due \cup {d}
  /\ UNCHANGED <<lease, status, attempts, job, tries, received, refused>>

Post(w, d) == Refuse(w, d) \/ Accepted(w, d) \/ Rejected(w, d)
Record(w, d) == RecordDelivered(w, d) \/ RecordFailed(w, d) \/ RecordBackoff(w, d)

Next ==
  \/ \E d \in Deliveries : Enqueue(d) \/ Elapse(d)
  \/ \E w \in Workers :
       \/ \E S \in SUBSET Deliveries : Claim(w, S)
       \/ \E d \in Deliveries : Post(w, d) \/ Record(w, d) \/ RecordLost(w, d)
       \/ Crash(w)

Spec == Init /\ [][Next]_vars

-----------------------------------------------------------------------------
(* Properties. *)

(* A row is marked delivered only after its endpoint processed the event,     *)
(* whichever of several workers wrote the mark.                               *)
DeliveredWasReceived ==
  \A d \in Deliveries : status[d] = "delivered" => d \in received

(* An event is given up only for a refused target or after MAX_ATTEMPTS       *)
(* claims, also by a worker whose lease ran out and whose count is stale.  A   *)
(* claim counts even if its worker crashed or its record was lost.            *)
FailedIsJustified ==
  \A d \in Deliveries :
    status[d] = "failed" => d \in refused \/ attempts[d] = MaxAttempts

(* Two workers never post the same row at once while leases outlast batches.  *)
OneWorkerPerRow ==
  lease => \A d \in Deliveries, v, w \in Workers :
             job[v][d] # "none" /\ job[w][d] # "none" => v = w

(* The rows some worker is at, and those that may be given up.                *)
Taken == {d \in Deliveries : \E w \in Workers : job[w][d] # "none"}
Hopeless == refused \cup {d \in Deliveries : attempts[d] = MaxAttempts}

(* Claims, posts and recording statements implement AtomicQueue: an outcome is *)
(* true, whoever records it; while leases outlast batches a row is with one    *)
(* worker at a time, no event is posted again once it has an outcome, and no   *)
(* late worker changes that outcome, although no UPDATE checks the status it   *)
(* overwrites.                                                                *)
Queue == INSTANCE AtomicQueue WITH
  Events <- Deliveries, strict <- lease, outcome <- status,
  taken <- Taken, processed <- received, hopeless <- Hopeless
Atomic == Queue!Spec

-----------------------------------------------------------------------------
(* Liveness.  The worker polls every second and takes the rows due longest    *)
(* first, so a row due again and again is claimed; a post ends within its      *)
(* timeout; recording an outcome does not fail for ever.                      *)
Fairness ==
  \A d \in Deliveries :
    /\ SF_vars(\E w \in Workers, S \in SUBSET Deliveries : d \in S /\ Claim(w, S))
    /\ WF_vars(Elapse(d))
    /\ \A w \in Workers : WF_vars(Post(w, d)) /\ SF_vars(Record(w, d))

FairSpec == Spec /\ Fairness

(* Once instances stop crashing, every enqueued event is delivered or given up. *)
EventsResolve ==
  <>[][\A w \in Workers : ~Crash(w)]_vars =>
    \A d \in Deliveries : status[d] = "pending" ~> status[d] \in {"delivered", "failed"}
=============================================================================
