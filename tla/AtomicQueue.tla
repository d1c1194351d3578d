----------------------------- MODULE AtomicQueue -----------------------------
(***************************************************************************)
(* What the delivery queue promises those who enqueue events: an event is  *)
(* posted until it has an outcome, the outcome is true, and, if the queue  *)
(* is strict, an event is with one poster at a time and keeps its outcome. *)
(***************************************************************************)
CONSTANTS Events

VARIABLES
  strict,     \* whether posters never overlap
  outcome,    \* "none" before the event is enqueued
  taken,      \* events some poster is at
  processed,  \* events their endpoint has processed
  hopeless    \* events that may be given up

vars == <<strict, outcome, taken, processed, hopeless>>

Init ==
  /\ strict \in BOOLEAN
  /\ outcome = [e \in Events |-> "none"]
  /\ taken = {} /\ processed = {} /\ hopeless = {}

Submit(e) ==
  /\ outcome[e] = "none"
  /\ outcome' = [outcome EXCEPT ![e] = "pending"]
  /\ UNCHANGED <<strict, taken, processed, hopeless>>

(* For some of the events it is the last attempt. *)
Take(events) ==
  /\ \A e \in events : outcome[e] = "pending"
  /\ strict => events \cap taken = {}
  /\ taken' = taken \cup events
  /\ \E last \in SUBSET events : hopeless' = hopeless \cup last
  /\ UNCHANGED <<strict, outcome, processed>>

Process(e) ==
  /\ e \in taken
  /\ processed' = processed \cup {e}
  /\ UNCHANGED <<strict, outcome, taken, hopeless>>

Refuse(e) ==
  /\ e \in taken
  /\ hopeless' = hopeless \cup {e}
  /\ UNCHANGED <<strict, outcome, taken, processed>>

Resolve(e) ==
  /\ e \in taken
  /\ strict => outcome[e] = "pending"
  /\ \/ e \in processed /\ outcome' = [outcome EXCEPT ![e] = "delivered"]
     \/ e \in hopeless /\ outcome' = [outcome EXCEPT ![e] = "failed"]
  /\ taken' \in {taken, taken \ {e}}
  /\ strict => e \notin taken'
  /\ UNCHANGED <<strict, processed, hopeless>>

Release(events) ==
  /\ taken' = taken \ events
  /\ UNCHANGED <<strict, outcome, processed, hopeless>>

Next ==
  \/ \E e \in Events : Submit(e) \/ Process(e) \/ Refuse(e) \/ Resolve(e)
  \/ \E events \in SUBSET Events : Take(events) \/ Release(events)

Spec == Init /\ [][Next]_vars
=============================================================================
