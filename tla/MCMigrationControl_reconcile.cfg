SPECIFICATION Spec
CONSTANTS
  Controllers = {c1, c2}
  Migrations = {1, 2, 3}
  DependsOn <- DependsOnDef
  Objects = {o1, o2, o3, o4}
  Expected <- ExpectedReplaced
  Checksums = {a, b}
  Absent = Absent
  Checkouts <- CheckoutsFull
  Environment = "production"
  None = None
  a = a
  b = b
  o1 = o1
  o2 = o2
  o3 = o3
  o4 = o4
INVARIANT AppliedScriptsCommitted
SYMMETRY Symmetry
