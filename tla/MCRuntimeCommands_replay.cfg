SPECIFICATION Spec
CONSTANTS
  t1 = t1
  t2 = t2
  k1 = k1
  k2 = k2
  f = f
  g = g
  Callers = {t1, t2}
  Keys = {k1, k2}
  Fingerprints = {f, g}
  Commands <- CommandsDef
  Batches <- BatchesSingle
  NoRecord = NoRecord
  Transacting = {}
  MaximumItems = 2
  MaxCalls = 1
  MaxRestarts = 0
SYMMETRY Symmetry
CHECK_DEADLOCK FALSE
INVARIANT OneReceiptPerKey
