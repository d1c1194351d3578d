\* Three uploads of the same bytes, the collector, one reconcile call, under
\* the environments in which each property is promised; no reconcile where
\* acknowledgements are lost.
SPECIFICATION Spec
CONSTANTS
  Files = {f1, f2, f3}
  Contents = {c1}
  Checksum <- SameChecksum
  Sweeps = {s1}
  NoKey = NoKey
  MaxLostAcks = 1
  Environments <- SafeEnvironments
SYMMETRY Symmetry
CONSTRAINT SweepsOrLosses
CHECK_DEADLOCK FALSE
INVARIANTS
  TypeOK
  LiveHasBlob
  WriterKeepsBlob
  UnsharedTrashHasBytes
  NoOrphanFromGc
PROPERTIES
  Atomic
  RestoreHasBytes
