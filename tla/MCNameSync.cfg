SPECIFICATION Spec
CONSTANTS
  Workers = {w1, w2}
  Requests = {r1, r2}
  Names = {1, 2, 3}
  Identities = {"a", "b", "c", "d"}
  Absent = Absent
  LastCheckpoint = 3
  Catalogue <- CatalogueDef
  SearchLimit = 2
  Offers <- OffersDef
  NoReceipt = NoReceipt
SYMMETRY Symmetry
INVARIANT Inv
INVARIANT AnswersAgree
PROPERTY RefusedWhenRacedOrCut
PROPERTY ImplementsReplica
