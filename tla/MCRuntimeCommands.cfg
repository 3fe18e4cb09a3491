SPECIFICATION Spec
CONSTANTS
  t1 = t1
  t2 = t2
  k1 = k1
  k2 = k2
  f = f
  g = g
  Callers = {t1, t2}
  Keys = {k1, k2}
  Fingerprints = {f, g}
  Commands <- CommandsDef
  Batches <- BatchesDef
  NoRecord = NoRecord
  Transacting = {t1}
  MaximumItems = 2
  MaxCalls = 2
  MaxRestarts = 1
CHECK_DEADLOCK FALSE
INVARIANT Inv
INVARIANT ReceiptMeansEffect
INVARIANT BulkAtomicEffects
INVARIANT BulkAccountsForItems
PROPERTY ImplementsJournal
