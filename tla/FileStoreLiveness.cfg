\* Two uploads of the same bytes in the weakest environment, no reconcile.
\* No symmetry: a liveness property is checked.
SPECIFICATION FairSpec
CONSTANTS
  Files = {f1, f2}
  Contents = {c1}
  Checksum <- SameChecksum
  Sweeps = {}
  NoKey = NoKey
  MaxLostAcks = 2
  Environments = {{}}
CHECK_DEADLOCK FALSE
PROPERTIES
  ExpiredIsResolved
