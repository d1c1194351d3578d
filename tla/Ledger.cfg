\* Two connections, two uploads that replay one grant and a third with its own,
\* a quota of 2 for sizes 1, 1 and 2, or none.
SPECIFICATION FairSpec
CONSTANTS
  f3 = f3
  n1 = n1
  n2 = n2
  Files = {f1, f2, f3}
  Nonces = {n1, n2}
  Nonce <- ReplayNonce
  Size <- UnequalSize
  Total <- SumOfSizes
  Quotas = {0, 2}
  Txs = {t1, t2}
  NoFile = NoFile
INVARIANTS
  TypeOK
  NonceSingleUse
  CountersExact
  QuotaReserved
PROPERTIES
  TransactionsEnd
  Atomic
