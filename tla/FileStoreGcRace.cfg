\* Every assumption but QuietGc: a collector may run while an upload is between its dedup query and its insert.
SPECIFICATION Spec
CONSTANTS
  Files = {f1, f2}
  Contents = {c1}
  Checksum <- SameChecksum
  Sweeps = {}
  NoKey = NoKey
  MaxLostAcks = 1
  Environments = {{"PromptUploads", "ReliableAcks", "PromptDeletes", "AwaitedDeletes"}}
SYMMETRY Symmetry
CHECK_DEADLOCK FALSE
INVARIANT RowsHaveBytes
