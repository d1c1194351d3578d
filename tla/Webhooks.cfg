\* Two rows, two workers that claim one row at a time, two attempts, with a
\* lease that outlasts every batch and with one that may not.
SPECIFICATION FairSpec
CONSTANTS
  Deliveries = {d1, d2}
  Workers = {w1, w2}
  MaxAttempts = 2
  Batch = 1
  LeaseOutlasts = {TRUE, FALSE}
CHECK_DEADLOCK FALSE
INVARIANTS
  TypeOK
  DeliveredWasReceived
  FailedIsJustified
  OneWorkerPerRow
PROPERTIES
  Atomic
  EventsResolve
