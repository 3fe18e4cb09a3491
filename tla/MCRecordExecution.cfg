SPECIFICATION FairSpec
CONSTANTS
  Sessions = {s1, s2}
  N = 3
  Counts = {2, 3}
  Sizes = {2}
  None = None
CHECK_DEADLOCK FALSE
INVARIANT ReceiptsMatchRows
INVARIANT ExecutesApprovedPlan
INVARIANT Inv
PROPERTY ImplementsMigration
PROPERTY RunEnds
