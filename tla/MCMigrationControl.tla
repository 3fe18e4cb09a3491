------------------------ MODULE MCMigrationControl ------------------------
(* Small instances of MigrationControl for TLC.                            *)
EXTENDS MigrationControl, TLC

CONSTANTS a, b, o1, o2, o3, o4

(* Three migrations; 3 depends on 1 only, as 23 does on 8 in the manifest. *)
DependsOnDef == 1 :> {} @@ 2 :> {1} @@ 3 :> {1}

(* Every migration declares an object of its own ...                       *)
ExpectedOwn == 1 :> {o1} @@ 2 :> {o2, o4} @@ 3 :> {o3, o4}

(* ... or, as sequences 30 and 36, the last only replaces an object.       *)
ExpectedReplaced == 1 :> {o1} @@ 2 :> {o2, o4} @@ 3 :> {o4}

ASSUME OwnObjects == DeclaresOwnObject \/ Expected = ExpectedReplaced

(* The full catalogue, an older checkout without 3, and one where the      *)
(* script of 2 has another content.                                        *)
Full    == [m \in Migrations |-> a]
Older   == [m \in Migrations |-> IF m = 3 THEN Absent ELSE a]
Changed == [m \in Migrations |-> IF m = 2 THEN b ELSE a]

CheckoutsAll  == {Full, Older, Changed}
CheckoutsFull == {Full}

Symmetry == Permutations(Controllers)
===========================================================================
