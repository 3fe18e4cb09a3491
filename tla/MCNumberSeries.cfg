SPECIFICATION Spec
CONSTANTS
  Transactions = {t1, t2}
  Series = {parcels, titles, addresses, geometries}
  Reservations = {r1, r2, r3}
  Keys = {k1, k2}
  parcels = parcels
  titles = titles
  addresses = addresses
  geometries = geometries
  NoRow = NoRow
  NoOne = NoOne
  Ids <- IdsDef
  Kind <- KindDef
  First <- FirstDef
  Step <- StepDef
  Limit = 4
  Base = 2
  MaxAddress = 3
  MaxNumber = 5
SYMMETRY Symmetry
INVARIANT Inv
INVARIANT GaplessSeries
INVARIANT NoReferenceTwice
PROPERTY ImplementsRegister
