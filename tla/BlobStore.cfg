\* Two renderings of one variant of two chunks and an upload of three, parts of two chunks.
SPECIFICATION Spec
CONSTANTS
  r1 = r1
  r2 = r2
  u1 = u1
  kv = kv
  ku = ku
  Writers = {r1, r2, u1}
  Keys = {kv, ku}
  Renders = {r1, r2}
  KeyOf <- MCKeyOf
  Size <- MCSize
  PartSize = 2
  Syncs = {TRUE}
  NoObject = NoObject
SYMMETRY Symmetry
CHECK_DEADLOCK FALSE
INVARIANTS
  TypeOK
  NothingLeftBehind
PROPERTIES
  Atomic
