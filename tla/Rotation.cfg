\* Two processes, two tenants, master keys 1 to 3.  One event at
\* a time.
SPECIFICATION Spec
CONSTANTS
  Procs = {p1, p2}
  Tenants = {t1, t2}
  Events = {e1}
  LastKey = 3
  Empty = Empty
  Signing = Signing
  Secrets = {Empty, Signing}
  NoSecret = NoSecret
SYMMETRY Symmetry
INVARIANTS
  TypeOK
  TenantSecretsReadable
  SuccessMeansRotated
  SecretsAreKept
  EventsAreSigned
