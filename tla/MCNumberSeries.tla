--------------------------- MODULE MCNumberSeries ---------------------------
(* A parcel series at the width of its numbers, titles with one number left, *)
(* addresses that count by two, and the geometry identifiers.                *)
EXTENDS NumberSeries, TLC
CONSTANTS parcels, titles, addresses, geometries
IdsDef == Series \cup Reservations
KindDef == [s \in Series |->
    CASE s = parcels -> "parcel" [] s = titles -> "title" [] s = addresses -> "address"
      [] OTHER -> "identifier"]
FirstDef == [s \in Series |->
    CASE s = parcels -> 4 [] s = titles -> 3 [] s = addresses -> 1 [] OTHER -> 2]
StepDef == [s \in Series |-> IF s = addresses THEN 2 ELSE 1]
Symmetry == Permutations(Transactions) \cup Permutations(Reservations) \cup Permutations(Keys)
=============================================================================
