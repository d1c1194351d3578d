\* Half a token per tick, a burst of two; a bucket is idle after two seconds.
SPECIFICATION Spec
CONSTANTS
  Clients = {c1, c2, c3, c4}
  Requests = {r1, r2}
  PerSecond = 1
  Burst = 2
  MaxTracked = 2
  IdleSeconds = 2
  TicksPerSecond = 2
  MaxClock = 4
  None = None
SYMMETRY Symmetry
CONSTRAINT Short
CHECK_DEADLOCK FALSE
INVARIANTS
  TypeOK
  Metered
