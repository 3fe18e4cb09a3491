SPECIFICATION Spec
CONSTANTS
  Transactions = {t1, t2}
  Principals = {p}
  Bundles = {b1, b2}
  Deliveries = {d1, d2}
  Secrets = {s1}
  p = p
  b1 = b1
  b2 = b2
  d1 = d1
  d2 = d2
  s1 = s1
  Ids <- IdsDef
  Owner <- OwnerDef
  BundleOf <- BundleOfDef
  NoRow = NoRow
  NoOne = NoOne
  Confirmations = {"verified"}
  MaxLocks = 2
  MaxDownloads = 1
SYMMETRY Symmetry
INVARIANT Inv
INVARIANT ReadersFindAtMostOne
INVARIANT DeliveriesWereReady
PROPERTY TerminalIsFinal
