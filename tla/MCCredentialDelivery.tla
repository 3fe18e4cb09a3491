------------------------ MODULE MCCredentialDelivery ------------------------
(* One developer with two bundles; two deliveries and one archive secret of  *)
(* the first one.                                                            *)
EXTENDS CredentialDelivery, TLC
CONSTANTS p, b1, b2, d1, d2, s1
IdsDef == Principals \cup Bundles \cup Deliveries \cup Secrets
OwnerDef == [b \in Bundles |-> p]
BundleOfDef == [x \in Deliveries \cup Secrets |-> b1]
Symmetry == Permutations(Transactions) \cup Permutations(Deliveries)
=============================================================================
