------------------------ MODULE MCMigrationPlanner ------------------------
(* Every catalogue of four migrations with arbitrary dependencies, also on *)
(* a migration that does not exist.                                        *)
EXTENDS MigrationPlanner
===========================================================================
