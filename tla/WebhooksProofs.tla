-------------------------- MODULE WebhooksProofs --------------------------
(***************************************************************************)
(* Proofs about Webhooks, for any number of rows and workers, any batch    *)
(* and any MAX_ATTEMPTS.                                                   *)
(***************************************************************************)
EXTENDS Webhooks, FiniteSetTheorems, TLAPS

(* What a worker knows about a row it holds. *)
JobInv ==
  \A w \in Workers, d \in Deliveries :
    /\ job[w][d] # "none" => status[d] # "none"
    /\ job[w][d] = "accepted" => d \in received
    /\ job[w][d] = "refused" => d \in refused
    /\ tries[w][d] <= attempts[d]

(* While leases outlast batches, a row at some worker is pending, not due,  *)
(* and at no other worker.                                                  *)
LeaseInv ==
  lease => \A w \in Workers, d \in Deliveries :
             job[w][d] # "none" => status[d] = "pending" /\ d \notin due

IInv ==
  /\ TypeOK /\ JobInv /\ LeaseInv
  /\ DeliveredWasReceived /\ FailedIsJustified /\ OneWorkerPerRow

-----------------------------------------------------------------------------
(* The rows of a worker after a step: some of those it had, or a new batch. *)
LEMMA HeldStep ==
  ASSUME TypeOK, [Next]_vars, NEW w \in Workers
  PROVE  Held(w)' \subseteq Held(w) \/ Cardinality(Held(w)') <= Batch
<1> USE DEF TypeOK, Jobs, Held
<1>1. ASSUME NEW d \in Deliveries, Enqueue(d) \/ Elapse(d) PROVE Held(w)' = Held(w)
  BY <1>1 DEF Enqueue, Elapse
<1>2. ASSUME NEW v \in Workers, NEW S \in SUBSET Deliveries, Claim(v, S)
      PROVE  Held(w)' = Held(w) \/ Cardinality(Held(w)') <= Batch
  <2>1. CASE v = w
    <3>1. Held(w)' = S
      BY <1>2, <2>1 DEF Claim
    <3>2. Cardinality(S) = Batch \/ Cardinality(S) < Batch
      BY <1>2 DEF Claim
    <3>3. Cardinality(S) \in Nat
      BY DeliveriesAssumption, FS_Subset, FS_CardinalityType
    <3>4. Cardinality(S) <= Batch
      BY <3>2, <3>3, BoundsAssumption
    <3> HIDE DEF Held
    <3> QED BY <3>1, <3>4
  <2>2. CASE v # w
    BY <1>2, <2>2 DEF Claim
  <2> QED BY <2>1, <2>2
<1>3. ASSUME NEW v \in Workers, NEW d \in Deliveries, Post(v, d) PROVE Held(w)' = Held(w)
  BY <1>3 DEF Post, Refuse, Accepted, Rejected
<1>4. ASSUME NEW v \in Workers, NEW d \in Deliveries, Record(v, d) \/ RecordLost(v, d)
      PROVE  Held(w)' \subseteq Held(w)
  BY <1>4 DEF Record, RecordDelivered, RecordFailed, RecordBackoff, RecordLost, Finish
<1>5. ASSUME NEW v \in Workers, Crash(v) PROVE Held(w)' \subseteq Held(w)
  BY <1>5 DEF Crash
<1>6. CASE UNCHANGED vars
  BY <1>6 DEF vars
<1> HIDE DEF TypeOK, Held
<1> QED
  BY <1>1, <1>2, <1>3, <1>4, <1>5, <1>6 DEF Next

(* No step leaves a worker with more than a batch. *)
LEMMA BatchStep ==
  ASSUME TypeOK, [Next]_vars, NEW w \in Workers
  PROVE  Cardinality(Held(w)') <= Batch
<1>1. IsFiniteSet(Held(w)) /\ Cardinality(Held(w)) \in Nat
  BY DeliveriesAssumption, FS_Subset, FS_CardinalityType DEF Held
<1>2. Cardinality(Held(w)) <= Batch
  BY DEF TypeOK
<1>3. CASE Held(w)' \subseteq Held(w)
  <2>1. IsFiniteSet(Held(w)') /\ Cardinality(Held(w)') <= Cardinality(Held(w))
    BY <1>1, <1>3, FS_Subset
  <2>2. Cardinality(Held(w)') \in Nat
    BY <2>1, FS_CardinalityType
  <2> QED BY <1>1, <1>2, <2>1, <2>2, BoundsAssumption
<1> QED BY <1>3, HeldStep

(* Every variable keeps its type. *)
Typed ==
  /\ lease \in LeaseOutlasts
  /\ status \in [Deliveries -> {"none", "pending", "delivered", "failed"}]
  /\ attempts \in [Deliveries -> 0 .. MaxAttempts]
  /\ due \subseteq Deliveries
  /\ job \in [Workers -> [Deliveries -> Jobs]]
  /\ tries \in [Workers -> [Deliveries -> 0 .. MaxAttempts]]
  /\ received \subseteq Deliveries
  /\ refused \subseteq Deliveries

LEMMA TypedStep == Typed /\ [Next]_vars => Typed'
<1> SUFFICES ASSUME Typed, [Next]_vars PROVE Typed'
  OBVIOUS
<1> USE BoundsAssumption
    DEF Typed, Jobs
<1>1. ASSUME NEW d \in Deliveries, Enqueue(d) PROVE Typed'
  BY <1>1 DEF Enqueue
<1>2. ASSUME NEW d \in Deliveries, Elapse(d) PROVE Typed'
  BY <1>2 DEF Elapse
<1>3. ASSUME NEW w \in Workers, NEW S \in SUBSET Deliveries, Claim(w, S) PROVE Typed'
  BY <1>3 DEF Claim, Claimable, Idle, Incremented
<1>4. ASSUME NEW w \in Workers, NEW d \in Deliveries, Refuse(w, d) PROVE Typed'
  BY <1>4 DEF Refuse
<1>5. ASSUME NEW w \in Workers, NEW d \in Deliveries, Accepted(w, d) PROVE Typed'
  BY <1>5 DEF Accepted
<1>6. ASSUME NEW w \in Workers, NEW d \in Deliveries, Rejected(w, d) PROVE Typed'
  BY <1>6 DEF Rejected
<1>7. ASSUME NEW w \in Workers, NEW d \in Deliveries, RecordDelivered(w, d) PROVE Typed'
  BY <1>7 DEF RecordDelivered, Finish
<1>8. ASSUME NEW w \in Workers, NEW d \in Deliveries, RecordFailed(w, d) PROVE Typed'
  BY <1>8 DEF RecordFailed, Finish
<1>9. ASSUME NEW w \in Workers, NEW d \in Deliveries, RecordBackoff(w, d) PROVE Typed'
  BY <1>9 DEF RecordBackoff, Finish
<1>10. ASSUME NEW w \in Workers, NEW d \in Deliveries, RecordLost(w, d) PROVE Typed'
  BY <1>10 DEF RecordLost, Finish
<1>11. ASSUME NEW w \in Workers, Crash(w) PROVE Typed'
  BY <1>11 DEF Crash
<1>12. CASE UNCHANGED vars
  BY <1>12 DEF vars
<1> QED
  BY <1>1, <1>2, <1>3, <1>4, <1>5, <1>6, <1>7, <1>8, <1>9, <1>10, <1>11, <1>12 DEF Next, Post, Record

(* The same with the bound on batches. *)
LEMMA TypeStep == TypeOK /\ [Next]_vars => TypeOK'
<1> SUFFICES ASSUME TypeOK, [Next]_vars PROVE TypeOK'
  OBVIOUS
<1>1. Typed'
  BY TypedStep DEF TypeOK, Typed
<1>2. \A w \in Workers : Cardinality(Held(w)') <= Batch
  BY BatchStep
<1> QED BY <1>1, <1>2 DEF TypeOK, Typed

(* A worker's view of a row it holds stays true. *)
LEMMA JobStep == TypeOK /\ JobInv /\ [Next]_vars => JobInv'
<1> SUFFICES ASSUME TypeOK, JobInv, [Next]_vars PROVE JobInv'
  OBVIOUS
<1> USE BoundsAssumption
    DEF TypeOK, Jobs, JobInv, Held
<1>1. ASSUME NEW d \in Deliveries, Enqueue(d) PROVE JobInv'
  BY <1>1 DEF Enqueue
<1>2. ASSUME NEW d \in Deliveries, Elapse(d) PROVE JobInv'
  BY <1>2 DEF Elapse
<1>3. ASSUME NEW w \in Workers, NEW S \in SUBSET Deliveries, Claim(w, S) PROVE JobInv'
  BY <1>3 DEF Claim, Claimable, Idle, Incremented
<1>4. ASSUME NEW w \in Workers, NEW d \in Deliveries, Refuse(w, d) PROVE JobInv'
  BY <1>4 DEF Refuse
<1>5. ASSUME NEW w \in Workers, NEW d \in Deliveries, Accepted(w, d) PROVE JobInv'
  BY <1>5 DEF Accepted
<1>6. ASSUME NEW w \in Workers, NEW d \in Deliveries, Rejected(w, d) PROVE JobInv'
  BY <1>6 DEF Rejected
<1>7. ASSUME NEW w \in Workers, NEW d \in Deliveries, RecordDelivered(w, d) PROVE JobInv'
  BY <1>7 DEF RecordDelivered, Finish
<1>8. ASSUME NEW w \in Workers, NEW d \in Deliveries, RecordFailed(w, d) PROVE JobInv'
  BY <1>8 DEF RecordFailed, Finish
<1>9. ASSUME NEW w \in Workers, NEW d \in Deliveries, RecordBackoff(w, d) PROVE JobInv'
  BY <1>9 DEF RecordBackoff, Finish
<1>10. ASSUME NEW w \in Workers, NEW d \in Deliveries, RecordLost(w, d) PROVE JobInv'
  BY <1>10 DEF RecordLost, Finish
<1>11. ASSUME NEW w \in Workers, Crash(w) PROVE JobInv'
  BY <1>11 DEF Crash
<1>12. CASE UNCHANGED vars
  BY <1>12 DEF vars
<1> QED
  BY <1>1, <1>2, <1>3, <1>4, <1>5, <1>6, <1>7, <1>8, <1>9, <1>10, <1>11, <1>12 DEF Next, Post, Record

(* A lease keeps a row with one worker. *)
LEMMA LeaseStep == TypeOK /\ JobInv /\ LeaseInv /\ OneWorkerPerRow /\ [Next]_vars => (LeaseInv /\ OneWorkerPerRow)'
<1> SUFFICES ASSUME TypeOK, JobInv, LeaseInv, OneWorkerPerRow, [Next]_vars PROVE (LeaseInv /\ OneWorkerPerRow)'
  OBVIOUS
<1> USE BoundsAssumption
    DEF TypeOK, Jobs, JobInv, LeaseInv, OneWorkerPerRow
<1>1. ASSUME NEW d \in Deliveries, Enqueue(d) PROVE (LeaseInv /\ OneWorkerPerRow)'
  BY <1>1 DEF Enqueue
<1>2. ASSUME NEW d \in Deliveries, Elapse(d) PROVE (LeaseInv /\ OneWorkerPerRow)'
  BY <1>2 DEF Elapse
<1>3. ASSUME NEW w \in Workers, NEW S \in SUBSET Deliveries, Claim(w, S) PROVE (LeaseInv /\ OneWorkerPerRow)'
  BY <1>3 DEF Claim, Claimable, Idle, Incremented
<1>4. ASSUME NEW w \in Workers, NEW d \in Deliveries, Refuse(w, d) PROVE (LeaseInv /\ OneWorkerPerRow)'
  BY <1>4 DEF Refuse
<1>5. ASSUME NEW w \in Workers, NEW d \in Deliveries, Accepted(w, d) PROVE (LeaseInv /\ OneWorkerPerRow)'
  BY <1>5 DEF Accepted
<1>6. ASSUME NEW w \in Workers, NEW d \in Deliveries, Rejected(w, d) PROVE (LeaseInv /\ OneWorkerPerRow)'
  BY <1>6 DEF Rejected
<1>7. ASSUME NEW w \in Workers, NEW d \in Deliveries, RecordDelivered(w, d) PROVE (LeaseInv /\ OneWorkerPerRow)'
  BY <1>7 DEF RecordDelivered, Finish
<1>8. ASSUME NEW w \in Workers, NEW d \in Deliveries, RecordFailed(w, d) PROVE (LeaseInv /\ OneWorkerPerRow)'
  BY <1>8 DEF RecordFailed, Finish
<1>9. ASSUME NEW w \in Workers, NEW d \in Deliveries, RecordBackoff(w, d) PROVE (LeaseInv /\ OneWorkerPerRow)'
  BY <1>9 DEF RecordBackoff, Finish
<1>10. ASSUME NEW w \in Workers, NEW d \in Deliveries, RecordLost(w, d) PROVE (LeaseInv /\ OneWorkerPerRow)'
  BY <1>10 DEF RecordLost, Finish
<1>11. ASSUME NEW w \in Workers, Crash(w) PROVE (LeaseInv /\ OneWorkerPerRow)'
  BY <1>11 DEF Crash
<1>12. CASE UNCHANGED vars
  BY <1>12 DEF vars
<1> QED
  BY <1>1, <1>2, <1>3, <1>4, <1>5, <1>6, <1>7, <1>8, <1>9, <1>10, <1>11, <1>12 DEF Next, Post, Record

(* A worker that has used up a row's attempts knows that the row has. *)
LEMMA TriesReachLimit ==
  ASSUME TypeOK, JobInv, NEW w \in Workers, NEW d \in Deliveries,
         tries[w][d] >= MaxAttempts
  PROVE  attempts[d] = MaxAttempts
<1>1. /\ tries[w][d] \in 0 .. MaxAttempts
      /\ attempts[d] \in 0 .. MaxAttempts
  BY DEF TypeOK
<1>2. tries[w][d] <= attempts[d]
  BY DEF JobInv
<1> QED
  BY <1>1, <1>2, BoundsAssumption

(* An outcome is recorded only with its reason. *)
LEMMA OutcomeStep == TypeOK /\ JobInv /\ DeliveredWasReceived /\ FailedIsJustified /\ [Next]_vars => (DeliveredWasReceived /\ FailedIsJustified)'
<1> SUFFICES ASSUME TypeOK, JobInv, DeliveredWasReceived, FailedIsJustified, [Next]_vars PROVE (DeliveredWasReceived /\ FailedIsJustified)'
  OBVIOUS
<1> USE BoundsAssumption
    DEF TypeOK, Jobs, JobInv, DeliveredWasReceived, FailedIsJustified
<1>1. ASSUME NEW d \in Deliveries, Enqueue(d) PROVE (DeliveredWasReceived /\ FailedIsJustified)'
  BY <1>1 DEF Enqueue
<1>2. ASSUME NEW d \in Deliveries, Elapse(d) PROVE (DeliveredWasReceived /\ FailedIsJustified)'
  BY <1>2 DEF Elapse
<1>3. ASSUME NEW w \in Workers, NEW S \in SUBSET Deliveries, Claim(w, S) PROVE (DeliveredWasReceived /\ FailedIsJustified)'
  BY <1>3 DEF Claim, Claimable, Idle, Incremented
<1>4. ASSUME NEW w \in Workers, NEW d \in Deliveries, Refuse(w, d) PROVE (DeliveredWasReceived /\ FailedIsJustified)'
  BY <1>4 DEF Refuse
<1>5. ASSUME NEW w \in Workers, NEW d \in Deliveries, Accepted(w, d) PROVE (DeliveredWasReceived /\ FailedIsJustified)'
  BY <1>5 DEF Accepted
<1>6. ASSUME NEW w \in Workers, NEW d \in Deliveries, Rejected(w, d) PROVE (DeliveredWasReceived /\ FailedIsJustified)'
  BY <1>6 DEF Rejected
<1>7. ASSUME NEW w \in Workers, NEW d \in Deliveries, RecordDelivered(w, d) PROVE (DeliveredWasReceived /\ FailedIsJustified)'
  BY <1>7 DEF RecordDelivered, Finish
<1>8. ASSUME NEW w \in Workers, NEW d \in Deliveries, RecordFailed(w, d) PROVE (DeliveredWasReceived /\ FailedIsJustified)'
  <2>1. tries[w][d] >= MaxAttempts => attempts[d] = MaxAttempts
    BY TriesReachLimit
  <2>2. d \in refused \/ attempts[d] = MaxAttempts
    BY <1>8, <2>1 DEF RecordFailed
  <2>3. /\ status' = [status EXCEPT ![d] = "failed"]
        /\ UNCHANGED <<attempts, received, refused>>
    BY <1>8 DEF RecordFailed, Finish
  <2> QED
    BY <2>2, <2>3
<1>9. ASSUME NEW w \in Workers, NEW d \in Deliveries, RecordBackoff(w, d) PROVE (DeliveredWasReceived /\ FailedIsJustified)'
  BY <1>9 DEF RecordBackoff, Finish
<1>10. ASSUME NEW w \in Workers, NEW d \in Deliveries, RecordLost(w, d) PROVE (DeliveredWasReceived /\ FailedIsJustified)'
  BY <1>10 DEF RecordLost, Finish
<1>11. ASSUME NEW w \in Workers, Crash(w) PROVE (DeliveredWasReceived /\ FailedIsJustified)'
  BY <1>11 DEF Crash
<1>12. CASE UNCHANGED vars
  BY <1>12 DEF vars
<1> QED
  BY <1>1, <1>2, <1>3, <1>4, <1>5, <1>6, <1>7, <1>8, <1>9, <1>10, <1>11, <1>12 DEF Next, Post, Record

LEMMA Inductive == Spec => []IInv
<1>1. Init => IInv
  <2> SUFFICES ASSUME Init PROVE IInv
    OBVIOUS
  <2>1. \A w \in Workers : Cardinality(Held(w)) <= Batch
    <3>1. \A w \in Workers : Held(w) = {}
      BY DEF Init, Held
    <3> QED BY <3>1, FS_EmptySet, BoundsAssumption
  <2> QED
    BY <2>1, BoundsAssumption DEF Init, IInv, TypeOK, Jobs, JobInv, LeaseInv,
         DeliveredWasReceived, FailedIsJustified, OneWorkerPerRow
<1>2. IInv /\ [Next]_vars => IInv'
  BY TypeStep, JobStep, LeaseStep, OutcomeStep DEF IInv
<1> QED
  BY <1>1, <1>2, PTL DEF Spec

-----------------------------------------------------------------------------
(* Type correctness of Webhooks. *)
THEOREM TypeCorrect == Spec => []TypeOK
  BY Inductive, PTL DEF IInv

(* An event marked delivered reached its endpoint. *)
THEOREM DeliveredMeansReceived == Spec => []DeliveredWasReceived
  BY Inductive, PTL DEF IInv

(* No event is given up before its last claim, by a stale worker either, but *)
(* those whose target was refused.                                           *)
THEOREM FailuresAreJustified == Spec => []FailedIsJustified
  BY Inductive, PTL DEF IInv

(* A sufficient lease keeps workers apart. *)
THEOREM LeasesExclude == Spec => []OneWorkerPerRow
  BY Inductive, PTL DEF IInv

(* A recorded outcome stays as it is while leases outlast batches. *)
OutcomeIsFinal ==
  [][lease => \A d \in Deliveries :
       status[d] \in {"delivered", "failed"} => status'[d] = status[d]]_<<lease, status>>

(* Under a sufficient lease the recorded outcome is final. *)
THEOREM OutcomesAreFinal == Spec => OutcomeIsFinal
<1> DEFINE Final ==
      lease => \A d \in Deliveries :
        status[d] \in {"delivered", "failed"} => status'[d] = status[d]
<1>1. IInv /\ [Next]_vars => [Final]_<<lease, status>>
  <2> SUFFICES ASSUME IInv, [Next]_vars PROVE Final \/ UNCHANGED <<lease, status>>
    OBVIOUS
  <2> USE DEF IInv, TypeOK, LeaseInv
  <2>1. ASSUME NEW w \in Workers, NEW d \in Deliveries, Record(w, d) PROVE Final
    BY <2>1 DEF Record, RecordDelivered, RecordFailed, RecordBackoff, Finish
  <2>2. ASSUME NEW w \in Workers, NEW d \in Deliveries, Post(w, d) \/ RecordLost(w, d)
        PROVE  UNCHANGED <<lease, status>>
    BY <2>2 DEF Post, Refuse, Accepted, Rejected, RecordLost, Finish
  <2>3. ASSUME NEW w \in Workers, Crash(w) \/ \E S \in SUBSET Deliveries : Claim(w, S)
        PROVE  UNCHANGED <<lease, status>>
    BY <2>3 DEF Crash, Claim
  <2>4. ASSUME NEW d \in Deliveries, Enqueue(d) \/ Elapse(d) PROVE Final
    BY <2>4 DEF Enqueue, Elapse
  <2>5. CASE UNCHANGED vars
    BY <2>5 DEF vars
  <2> QED
    BY <2>1, <2>2, <2>3, <2>4, <2>5 DEF Next
<1> QED
  BY <1>1, Inductive, PTL DEF Spec, OutcomeIsFinal

-----------------------------------------------------------------------------
(* Each step of the workers is one step of AtomicQueue, or none. *)
LEMMA StepImplements == IInv /\ [Next]_vars => [Queue!Next]_(Queue!vars)
<1> SUFFICES ASSUME IInv, [Next]_vars PROVE Queue!Next \/ UNCHANGED Queue!vars
  OBVIOUS
<1> USE DEF IInv, TypeOK, Jobs
<1>1. ASSUME NEW d \in Deliveries, Enqueue(d) PROVE Queue!Submit(d)
  BY <1>1 DEF Enqueue, Queue!Submit, Taken, Hopeless
<1>2. ASSUME NEW d \in Deliveries, Elapse(d) PROVE UNCHANGED Queue!vars
  BY <1>2 DEF Elapse, Queue!vars, Taken, Hopeless
<1>3. ASSUME NEW w \in Workers, NEW S \in SUBSET Deliveries, Claim(w, S) PROVE Queue!Take(S)
  <2>1. \A d \in S : status[d] = "pending" /\ d \in due
    BY <1>3 DEF Claim, Claimable
  <2>2. lease => S \cap Taken = {}
    BY <2>1 DEF LeaseInv, Taken
  <2>3. Taken' = Taken \cup S
    BY <1>3 DEF Claim, Idle, Taken
  <2>4. \E last \in SUBSET S : Hopeless' = Hopeless \cup last
    <3> WITNESS {d \in S : attempts'[d] = MaxAttempts} \in SUBSET S
    <3>1. \A d \in Deliveries : attempts[d] = MaxAttempts => attempts'[d] = MaxAttempts
      BY <1>3, BoundsAssumption DEF Claim, Incremented
    <3>2. \A d \in Deliveries \ S : attempts'[d] = attempts[d]
      BY <1>3 DEF Claim
    <3> QED
      BY <1>3, <3>1, <3>2 DEF Claim, Hopeless
  <2> QED
    BY <1>3, <2>1, <2>2, <2>3, <2>4 DEF Claim, Queue!Take
<1>4. ASSUME NEW w \in Workers, NEW d \in Deliveries, Refuse(w, d) PROVE Queue!Refuse(d)
  <2>1. d \in Taken /\ Taken' = Taken
    BY <1>4 DEF Refuse, Taken
  <2> QED
    BY <1>4, <2>1 DEF Refuse, Queue!Refuse, Hopeless
<1>5. ASSUME NEW w \in Workers, NEW d \in Deliveries, Accepted(w, d) \/ Rejected(w, d)
      PROVE  Queue!Process(d) \/ UNCHANGED Queue!vars
  <2>1. d \in Taken /\ Taken' = Taken
    <3>1. job[w][d] # "none"
      BY <1>5 DEF Accepted, Rejected
    <3>2. \A v \in Workers, e \in Deliveries : job'[v][e] # "none" <=> job[v][e] # "none"
      BY <1>5 DEF Accepted, Rejected
    <3> QED
      BY <3>1, <3>2 DEF Taken
  <2>2. UNCHANGED <<lease, status, Hopeless>>
    BY <1>5 DEF Accepted, Rejected, Hopeless
  <2>3. received' = received \cup {d} \/ UNCHANGED received
    BY <1>5 DEF Accepted, Rejected
  <2> HIDE DEF IInv, TypeOK
  <2> QED
    BY <2>1, <2>2, <2>3 DEF Queue!Process, Queue!vars
<1>6. ASSUME NEW w \in Workers, NEW d \in Deliveries, RecordDelivered(w, d) \/ RecordFailed(w, d)
      PROVE  Queue!Resolve(d)
  <2>1. d \in Taken /\ (lease => status[d] = "pending")
    BY <1>6 DEF RecordDelivered, RecordFailed, LeaseInv, Taken
  <2>2. /\ Taken' \in {Taken, Taken \ {d}}
        /\ lease => d \notin Taken'
    <3>1. \A v \in Workers, e \in Deliveries :
            job'[v][e] = IF v = w /\ e = d THEN "none" ELSE job[v][e]
      BY <1>6 DEF RecordDelivered, RecordFailed, Finish
    <3>2. \A e \in Deliveries \ {d} : e \in Taken' <=> e \in Taken
      BY <3>1 DEF Taken
    <3>3. lease => d \notin Taken'
      <4>1. lease => \A v \in Workers : job[v][d] # "none" => v = w
        BY <1>6 DEF RecordDelivered, RecordFailed, OneWorkerPerRow
      <4> QED
        BY <3>1, <4>1 DEF Taken
    <3>4. Taken \subseteq Deliveries /\ Taken' \subseteq Deliveries
      BY DEF Taken
    <3> HIDE DEF IInv, TypeOK
    <3>5. d \in Taken' => Taken' = Taken
      BY <2>1, <3>2, <3>4
    <3>6. d \notin Taken' => Taken' = Taken \ {d}
      BY <2>1, <3>2, <3>4
    <3> QED
      BY <3>3, <3>5, <3>6
  <2>3. Hopeless' = Hopeless
    BY <1>6 DEF RecordDelivered, RecordFailed, Finish, Hopeless
  <2>4. CASE RecordDelivered(w, d)
    BY <2>1, <2>2, <2>3, <2>4 DEF RecordDelivered, Finish, JobInv, Queue!Resolve
  <2>5. CASE RecordFailed(w, d)
    <3>1. tries[w][d] >= MaxAttempts => attempts[d] = MaxAttempts
      BY TriesReachLimit
    <3>2. d \in Hopeless
      BY <2>5, <3>1 DEF RecordFailed, JobInv, Hopeless
    <3> QED
      BY <2>1, <2>2, <2>3, <2>5, <3>2 DEF RecordFailed, Finish, Queue!Resolve
  <2> QED
    BY <1>6, <2>4, <2>5
<1>7. ASSUME NEW w \in Workers, NEW d \in Deliveries, RecordBackoff(w, d) \/ RecordLost(w, d)
      PROVE  Queue!Release(Taken \ Taken')
  <2>1. Taken' \subseteq Taken
    BY <1>7 DEF RecordBackoff, RecordLost, Finish, Taken
  <2> QED
    BY <1>7, <2>1 DEF RecordBackoff, RecordLost, Finish, Queue!Release, Hopeless
<1>8. ASSUME NEW w \in Workers, Crash(w) PROVE Queue!Release(Taken \ Taken')
  <2>1. Taken' \subseteq Taken
    BY <1>8 DEF Crash, Taken
  <2> QED
    BY <1>8, <2>1 DEF Crash, Queue!Release, Hopeless
<1>9. CASE UNCHANGED vars
  BY <1>9 DEF vars, Queue!vars, Taken, Hopeless
<1>10. Taken \ Taken' \in SUBSET Deliveries
  BY DEF Taken
<1> QED
  BY <1>1, <1>2, <1>3, <1>4, <1>5, <1>6, <1>7, <1>8, <1>9, <1>10 DEF Next, Post, Record, Queue!Next

(* For any number of workers and rows, across crashes and lost outcomes, the  *)
(* queue does what AtomicQueue promises.                                      *)
THEOREM QueueIsAtomic == Spec => Atomic
<1>1. Init => Queue!Init
  BY BoundsAssumption, LeaseAssumption DEF Init, Queue!Init, Taken, Hopeless
<1> QED
  BY <1>1, StepImplements, Inductive, PTL DEF Spec, Atomic, Queue!Spec
=============================================================================
