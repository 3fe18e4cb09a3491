SPECIFICATION FairSpec
CONSTANTS
  Controllers = {c1, c2}
  Migrations = {1, 2, 3}
  DependsOn <- DependsOnDef
  Objects = {o1, o2, o3, o4}
  Expected <- ExpectedOwn
  Checksums = {a, b}
  Absent = Absent
  Checkouts <- CheckoutsAll
  Environment = "development"
  None = None
  a = a
  b = b
  o1 = o1
  o2 = o2
  o3 = o3
  o4 = o4
INVARIANT LedgerTruth
INVARIANT DependenciesApplied
INVARIANT RunnerAgreesWithLedger
PROPERTY CommitsUnderLock
PROPERTY ImplementsHistory
PROPERTY RollbackDependentsFirst
PROPERTY LockReleased
