-------------------------- MODULE WindowedMigration --------------------------
(***************************************************************************)
(* What the coordinate migration promises of the database, whoever runs it *)
(* and however often it is interrupted: the ordinals 1..N are migrated in  *)
(* order, by records of a window that must be finished before another one  *)
(* is opened, each with its receipt, or by batches without such receipts.  *)
(***************************************************************************)
EXTENDS Integers

CONSTANTS N, None

VARIABLES
  done,      \* the ordinals 1..done are migrated
  open,      \* the window that is begun and not finished, or None
  receipts   \* which window migrated which ordinal

migrationVars == <<done, open, receipts>>

Init == done = 0 /\ open = None /\ receipts = {}

(* The windows the next record may belong to.                              *)
Eligible ==
  IF open # None THEN {open} ELSE [start : 1..(done + 1), end : (done + 1)..N]

Record ==
  /\ done < N
  /\ \E w \in Eligible :
       /\ open' = IF w.end = done + 1 THEN None ELSE w
       /\ receipts' = receipts \cup {[batch |-> w, ordinal |-> done + 1]}
  /\ done' = done + 1

(* A batch goes on where the migration stands and may pass the window.     *)
Batch ==
  /\ done' \in (done + 1)..N
  /\ open' = IF open # None /\ open.end <= done' THEN None ELSE open
  /\ UNCHANGED receipts

Next == Record \/ Batch

Spec == Init /\ [][Next]_migrationVars
=============================================================================
