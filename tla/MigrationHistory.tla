-------------------------- MODULE MigrationHistory --------------------------
(***************************************************************************)
(* What database/migration_control promises, whoever runs it and whatever  *)
(* is interrupted: migrations happen one at a time, each at most once and  *)
(* on top of what it depends on; an interrupted one has either run or not, *)
(* and nothing happens after it until that is settled; a failed one has    *)
(* not run and ends the history.                                           *)
(***************************************************************************)
CONSTANTS Migrations, DependsOn, None

VARIABLES
  done,   \* migrations known to have run
  open,   \* the migration that is under way or in doubt, or None
  ran,    \* whether the open migration has run
  failed  \* whether the open migration is known to have failed

historyVars == <<done, open, ran, failed>>

Init == done = {} /\ open = None /\ ran = FALSE /\ failed = FALSE

Open(m) ==
  /\ open = None
  /\ m \notin done
  /\ DependsOn[m] \subseteq done
  /\ open' = m
  /\ UNCHANGED <<done, ran, failed>>

Run ==
  /\ open # None
  /\ ~ ran /\ ~ failed
  /\ ran' = TRUE
  /\ UNCHANGED <<done, open, failed>>

Close ==
  /\ ran
  /\ done' = done \cup {open}
  /\ open' = None
  /\ ran' = FALSE
  /\ UNCHANGED failed

Fail ==
  /\ open # None
  /\ ~ ran /\ ~ failed
  /\ failed' = TRUE
  /\ UNCHANGED <<done, open, ran>>

Next == (\E m \in Migrations : Open(m)) \/ Run \/ Close \/ Fail

Spec == Init /\ [][Next]_historyVars
=============================================================================
