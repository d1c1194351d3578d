\* Three calls at a time, four catalogs, no call begins after two versions.
SPECIFICATION Spec
CONSTANTS
  avatar = avatar
  avatar2 = avatar2
  doc = doc
  Calls = {c1, c2, c3}
  Policies = {avatar, avatar2, doc}
  KeyOf <- KeyOfPolicy
  Catalogs <- SomeCatalogs
  Hash <- SomeHash
  None = None
  MaxVersion = 2
\* No call begins once MaxVersion is reached.
SYMMETRY Symmetry
CHECK_DEADLOCK FALSE
INVARIANTS
  TypeOK
  PoliciesAreLatest
  OnlyOvertakenDeadlock
PROPERTIES
  Atomic
