-------------------------- MODULE MigrationControl --------------------------
(***************************************************************************)
(* The migration runner of database/migration_control.                     *)
(*                                                                         *)
(* Several invocations of `python -m database.migration_control apply`     *)
(* (the Controllers), each with one PostgreSQL session and one checkout of *)
(* the repository, share one database: the ledger platform.schema_migration*)
(* a session-level advisory lock, and the schema the migration scripts     *)
(* build.  Two things work on the same database WITHOUT the lock: an       *)
(* operator who reconciles interrupted migrations (recovery.py), and, in   *)
(* development only, an operator who rolls migrations back (rollback.py).  *)
(*                                                                         *)
(* A migration is its sequence number: the planner accepts only catalogues *)
(* whose dependency order is the order of the sequence numbers (see        *)
(* MigrationPlanner), so the forward order of a plan is the order of <.    *)
(* All 36 scripts of the manifest have the transaction policy "embedded":  *)
(* one BEGIN, one COMMIT at the end, so a script commits or leaves nothing.*)
(***************************************************************************)
EXTENDS Integers, FiniteSets

CONSTANTS
  Controllers,  \* invocations of `apply`; a finished one may be run again
  Migrations,   \* sequence numbers
  DependsOn,    \* depends_on of every migration
  Objects,      \* names of schemas, tables, views, constraints ...
  Expected,     \* expected_objects of every migration
  Checksums,    \* SHA-256 digests of forward scripts
  Absent,       \* "this migration is not in the catalogue"
  Checkouts,    \* trusted catalogues: migration -> digest, or Absent
  Environment,  \* environment_name of the target
  None          \* no controller, no migration

Catalogue(k) == {m \in Migrations : k[m] # Absent}

(* What the manifest loader, discovery and planner guarantee of a trusted  *)
(* plan: every dependency is in the catalogue and has a smaller number.    *)
ASSUME MigrationsAssumption ==
  /\ Migrations \subseteq Nat \ {0}
  /\ None \notin Controllers \cup Migrations
  /\ Absent \notin Checksums
  /\ Checkouts \subseteq [Migrations -> Checksums \cup {Absent}]
  /\ DependsOn \in [Migrations -> SUBSET Migrations]
  /\ \A m \in Migrations : \A d \in DependsOn[m] : d < m
  /\ \A k \in Checkouts : \A m \in Catalogue(k) : DependsOn[m] \subseteq Catalogue(k)
  /\ Expected \in [Migrations -> SUBSET Objects]

VARIABLES
  status,    \* ledger status of every migration; "NONE" without a record
  sha,       \* checksum_sha256 of the ledger record
  effects,   \* migrations whose forward effect is in the schema
  commits,   \* history: how often each forward script has committed
  lockOwner, \* controller whose session holds the advisory lock
  pc,        \* where each invocation is in service.apply
  checkout,  \* the trusted catalogue of each invocation
  pending,   \* definitions its for loop has still to visit
  current,   \* the definition it is executing
  assessed,  \* migration the operator has been told to reconcile
  rollback   \* migrations left in the rollback plan being executed

ledgerVars   == <<status, sha>>
schemaVars   == <<effects, commits>>
operatorVars == <<assessed, rollback>>
vars == <<ledgerVars, schemaVars, lockOwner, pc, checkout, pending, current, operatorVars>>

Statuses == {"NONE", "STARTED", "APPLIED", "FAILED"}

(* The pcs between acquiring the advisory lock and the end of the session. *)
(* "orphaned": the client is gone, its backend still runs the script.      *)
Executing == {"executing", "marking", "failing", "orphaned"}
Holding   == {"verifying", "selecting", "applying"} \cup Executing
Pcs       == {"idle", "locking"} \cup Holding

TypeOK ==
  /\ status \in [Migrations -> Statuses]
  /\ sha \in [Migrations -> Checksums \cup {Absent}]
  /\ effects \subseteq Migrations
  /\ commits \in [Migrations -> Nat]
  /\ lockOwner \in Controllers \cup {None}
  /\ pc \in [Controllers -> Pcs]
  /\ checkout \in [Controllers -> Checkouts]
  /\ pending \in [Controllers -> SUBSET Migrations]
  /\ current \in [Controllers -> Migrations \cup {None}]
  /\ assessed \in Migrations \cup {None}
  /\ rollback \subseteq Migrations

Init ==
  /\ status    = [m \in Migrations |-> "NONE"]
  /\ sha       = [m \in Migrations |-> Absent]
  /\ effects   = {}
  /\ commits   = [m \in Migrations |-> 0]
  /\ lockOwner = None
  /\ pc        = [c \in Controllers |-> "idle"]
  /\ checkout  \in [Controllers -> Checkouts]
  /\ pending   = [c \in Controllers |-> {}]
  /\ current   = [c \in Controllers |-> None]
  /\ assessed  = None
  /\ rollback  = {}

-----------------------------------------------------------------------------
(* Reads of the ledger and of the database catalogue.                      *)

HasRecord(m) == status[m] # "NONE"

(* verify(): no checksum mismatch, no record the catalogue does not know,  *)
(* no STARTED record.                                                      *)
(* Mutated form: the records the catalogue does not know go unnoticed.     *)
LedgerConsistentKnownOnly(c) ==
  \A m \in Catalogue(checkout[c]) : HasRecord(m) =>
    sha[m] = checkout[c][m] /\ status[m] # "STARTED"

LedgerConsistent(c) ==
  \A m \in Migrations : HasRecord(m) =>
    /\ m \in Catalogue(checkout[c])
    /\ sha[m] = checkout[c][m]
    /\ status[m] # "STARTED"

NoFailedRecord == \A m \in Migrations : status[m] # "FAILED"

Applied == {m \in Migrations : status[m] = "APPLIED"}

(* Mutated form: recovery without the structural inspection.               *)
NoInspection(m) == TRUE

ExpectedObjectsPresent(m) == Expected[m] \subseteq UNION {Expected[k] : k \in effects}

-----------------------------------------------------------------------------
(* service.apply: one action per statement that reads or writes the        *)
(* database.  Any raise ends the invocation: the finally clauses release   *)
(* the lock and close the connection.                                      *)

Goto(c, label) == pc' = [pc EXCEPT ![c] = label]

(* Mutated form: a raise that forgets to release the lock.                 *)
EndSessionKeepsLock(c) ==
  /\ Goto(c, "idle")
  /\ pending' = [pending EXCEPT ![c] = {}]
  /\ current' = [current EXCEPT ![c] = None]
  /\ UNCHANGED lockOwner

EndSession(c) ==
  /\ Goto(c, "idle")
  /\ lockOwner' = IF lockOwner = c THEN None ELSE lockOwner
  /\ pending' = [pending EXCEPT ![c] = {}]
  /\ current' = [current EXCEPT ![c] = None]

(* main(), trusted_plan() and bootstrap(), which creates the empty ledger  *)
(* with IF NOT EXISTS and is repeatable.                                   *)
Start(c) ==
  /\ pc[c] = "idle"
  /\ \E k \in Checkouts : checkout' = [checkout EXCEPT ![c] = k]
  /\ Goto(c, "locking")
  /\ UNCHANGED <<ledgerVars, schemaVars, lockOwner, pending, current, operatorVars>>

(* Mutated form: a lock keyed per invocation is always free.               *)
LockAlwaysFree == TRUE

LockFree == lockOwner = None

(* pg_try_advisory_lock does not wait: the loser raises MigrationLockError *)
TryLock(c) ==
  /\ pc[c] = "locking"
  /\ IF LockFree
       THEN /\ lockOwner' = c
            /\ Goto(c, "verifying")
            /\ UNCHANGED <<pending, current>>
       ELSE EndSession(c)
  /\ UNCHANGED <<ledgerVars, schemaVars, checkout, operatorVars>>

Verify(c) ==
  /\ pc[c] = "verifying"
  /\ IF LedgerConsistent(c) /\ NoFailedRecord
       THEN /\ Goto(c, "selecting")
            /\ UNCHANGED <<lockOwner, pending, current>>
       ELSE EndSession(c)
  /\ UNCHANGED <<ledgerVars, schemaVars, checkout, operatorVars>>

(* applied={...}, read from a second history() query.                      *)
SelectPending(c) ==
  /\ pc[c] = "selecting"
  /\ pending' = [pending EXCEPT ![c] = Catalogue(checkout[c]) \ Applied]
  /\ Goto(c, "applying")
  /\ UNCHANGED <<ledgerVars, schemaVars, lockOwner, checkout, current, operatorVars>>

(* Mutated form: the loop visits the definitions backwards.                *)
IsLast(m, c) == m \in pending[c] /\ \A k \in pending[c] : k <= m

IsNext(m, c) == m \in pending[c] /\ \A k \in pending[c] : m <= k

(* executor.execute up to ledger_insert_started, which commits.            *)
InsertStarted(c) ==
  /\ pc[c] = "applying"
  /\ \E m \in pending[c] :
       /\ IsNext(m, c)
       /\ IF HasRecord(m)
            THEN /\ EndSession(c)
                 /\ UNCHANGED ledgerVars
            ELSE /\ status' = [status EXCEPT ![m] = "STARTED"]
                 /\ sha' = [sha EXCEPT ![m] = checkout[c][m]]
                 /\ current' = [current EXCEPT ![c] = m]
                 /\ pending' = [pending EXCEPT ![c] = @ \ {m}]
                 /\ Goto(c, "executing")
                 /\ UNCHANGED lockOwner
  /\ UNCHANGED <<schemaVars, checkout, operatorVars>>

(* The COMMIT of the script takes effect.                                  *)
CommitForward(m) ==
  /\ effects' = effects \cup {m}
  /\ commits' = [commits EXCEPT ![m] = @ + 1]

SqlCommits(c) ==
  /\ pc[c] = "executing"
  /\ CommitForward(current[c])
  /\ Goto(c, "marking")
  /\ UNCHANGED <<ledgerVars, lockOwner, checkout, pending, current, operatorVars>>

SqlFails(c) ==
  /\ pc[c] = "executing"
  /\ Goto(c, "failing")
  /\ UNCHANGED <<ledgerVars, schemaVars, lockOwner, checkout, pending, current, operatorVars>>

(* ledger_update: UPDATE ... WHERE migration_id=m AND status='STARTED'.    *)
LedgerUpdate(m, s) ==
  status' = IF status[m] = "STARTED" THEN [status EXCEPT ![m] = s] ELSE status

MarkApplied(c) ==
  /\ pc[c] = "marking"
  /\ LedgerUpdate(current[c], "APPLIED")
  /\ current' = [current EXCEPT ![c] = None]
  /\ Goto(c, "applying")
  /\ UNCHANGED <<sha, schemaVars, lockOwner, checkout, pending, operatorVars>>

(* Mutated form: the error is recorded and the loop goes on.               *)
MarkFailedAndContinue(c) ==
  /\ pc[c] = "failing"
  /\ LedgerUpdate(current[c], "FAILED")
  /\ current' = [current EXCEPT ![c] = None]
  /\ Goto(c, "applying")
  /\ UNCHANGED <<sha, schemaVars, lockOwner, checkout, pending, operatorVars>>

MarkFailed(c) ==
  /\ pc[c] = "failing"
  /\ LedgerUpdate(current[c], "FAILED")
  /\ EndSession(c)
  /\ UNCHANGED <<sha, schemaVars, checkout, operatorVars>>

Finish(c) ==
  /\ pc[c] = "applying"
  /\ pending[c] = {}
  /\ EndSession(c)
  /\ UNCHANGED <<ledgerVars, schemaVars, checkout, operatorVars>>

-----------------------------------------------------------------------------
(* The client process dies, or its connection is lost.  The advisory lock  *)
(* goes with the session; a backend that has received the script runs it   *)
(* to its end before it notices.                                           *)

Crash(c) ==
  /\ pc[c] \in Pcs \ {"idle", "executing", "orphaned"}
  /\ EndSession(c)
  /\ UNCHANGED <<ledgerVars, schemaVars, checkout, operatorVars>>

CrashWhileExecuting(c) ==
  /\ pc[c] = "executing"
  /\ Goto(c, "orphaned")
  /\ UNCHANGED <<ledgerVars, schemaVars, lockOwner, checkout, pending, current, operatorVars>>

OrphanCommits(c) ==
  /\ pc[c] = "orphaned"
  /\ CommitForward(current[c])
  /\ EndSession(c)
  /\ UNCHANGED <<ledgerVars, checkout, operatorVars>>

OrphanAborts(c) ==
  /\ pc[c] = "orphaned"
  /\ EndSession(c)
  /\ UNCHANGED <<ledgerVars, schemaVars, checkout, operatorVars>>

-----------------------------------------------------------------------------
(* recovery.py and rollback.py take no lock.                               *)

Decision(m) ==
  CASE status[m] \in {"NONE", "FAILED"} -> "RETRY"
    [] status[m] = "APPLIED" -> "STOP"
    [] status[m] = "STARTED" ->
         IF ExpectedObjectsPresent(m) THEN "RECONCILE_APPLIED" ELSE "STOP"

Assess(m) ==
  /\ assessed = None
  /\ Decision(m) = "RECONCILE_APPLIED"
  /\ assessed' = m
  /\ UNCHANGED <<ledgerVars, schemaVars, lockOwner, pc, checkout, pending, current, rollback>>

(* reconcile_applied checks the status again and raises if it has moved.   *)
Reconcile ==
  /\ assessed # None
  /\ LedgerUpdate(assessed, "APPLIED")
  /\ assessed' = None
  /\ UNCHANGED <<sha, schemaVars, lockOwner, pc, checkout, pending, current, rollback>>

(* rollback_order up to the target: every applied migration from the last  *)
(* one back to the target.                                                 *)
RollbackPlan(target) == {m \in Applied : m >= target}

PlanRollback(target) ==
  /\ Environment = "development"
  /\ rollback = {}
  /\ target \in Applied
  /\ rollback' = RollbackPlan(target)
  /\ UNCHANGED <<ledgerVars, schemaVars, lockOwner, pc, checkout, pending, current, assessed>>

(* Mutated form: the plan is executed in forward order.                    *)
IsOldestRollback(m) == m \in rollback /\ \A k \in rollback : m <= k

IsNextRollback(m) == m \in rollback /\ \A k \in rollback : k <= m

(* MigrationRollbackService.execute runs the script; the ledger is left.   *)
RollbackStep ==
  \E m \in rollback :
    /\ IsNextRollback(m)
    /\ effects' = effects \ {m}
    /\ rollback' = rollback \ {m}
    /\ UNCHANGED <<ledgerVars, commits, lockOwner, pc, checkout, pending, current, assessed>>

RollbackFails ==
  /\ rollback # {}
  /\ rollback' = {}
  /\ UNCHANGED <<ledgerVars, schemaVars, lockOwner, pc, checkout, pending, current, assessed>>

-----------------------------------------------------------------------------
ControllerStep(c) ==
  \/ TryLock(c) \/ Verify(c) \/ SelectPending(c) \/ InsertStarted(c)
  \/ SqlCommits(c) \/ SqlFails(c) \/ MarkApplied(c) \/ MarkFailed(c) \/ Finish(c)

OrphanStep(c) == OrphanCommits(c) \/ OrphanAborts(c)

OperatorStep ==
  \/ \E m \in Migrations : Assess(m) \/ PlanRollback(m)
  \/ Reconcile \/ RollbackStep \/ RollbackFails

Next ==
  \/ \E c \in Controllers :
       \/ Start(c) \/ ControllerStep(c)
       \/ Crash(c) \/ CrashWhileExecuting(c) \/ OrphanStep(c)
  \/ OperatorStep

Spec == Init /\ [][Next]_vars

(* A running client keeps executing statements, an abandoned backend comes *)
(* to the end of its script.  Nobody has to start an apply, to reconcile   *)
(* or to roll back, and nothing says a script succeeds.                    *)
Fairness == \A c \in Controllers : WF_vars(ControllerStep(c)) /\ WF_vars(OrphanStep(c))

FairSpec == Spec /\ Fairness

-----------------------------------------------------------------------------
(* The migration declares an object no other one declares.  It is what     *)
(* makes the inspection of recovery.py conclusive; sequences 30 and 36 of  *)
(* the manifest do not, see AppliedScriptsCommitted.                       *)
OwnsObject(m) == ~ Expected[m] \subseteq UNION {Expected[k] : k \in Migrations \ {m}}

DeclaresOwnObject == \A m \in Migrations : OwnsObject(m)

(* The ledger tells the truth: APPLIED says the forward script committed,  *)
(* once, if the migration can be told by its objects; no record, or a      *)
(* FAILED one, says that it did not.  Only STARTED leaves the outcome      *)
(* open.  (executor.execute, recovery.py)                                  *)
LedgerTruth ==
  \A m \in Migrations :
    /\ status[m] = "APPLIED" /\ OwnsObject(m) => commits[m] = 1
    /\ status[m] \in {"NONE", "FAILED"} => commits[m] = 0

(* No crash, retry, concurrent apply or reconciliation makes a forward     *)
(* script commit a second time.                                            *)
CommittedAtMostOnce == \A m \in Migrations : commits[m] <= 1

(* At most one migration is unresolved: whatever was interrupted or failed *)
(* stops every later apply before another record is opened.                *)
OneUnresolved ==
  \A m, k \in Migrations :
    status[m] \in {"STARTED", "FAILED"} /\ status[k] \in {"STARTED", "FAILED"} => m = k

(* A script has committed only on top of everything it depends on, and the *)
(* ledger says so of every dependency.                                     *)
DependenciesApplied ==
  \A m \in Migrations : commits[m] > 0 =>
    \A d \in DependsOn[m] : status[d] = "APPLIED"

(* From verify() to the end of its loop an invocation agrees with every    *)
(* record of the ledger: it was checked once, and what another invocation  *)
(* does meanwhile cannot make the check stale.                             *)
RunnerAgreesWithLedger ==
  \A c \in Controllers : pc[c] \in Holding \ {"verifying"} =>
    \A m \in Migrations : status[m] # "NONE" =>
      m \in Catalogue(checkout[c]) /\ sha[m] = checkout[c][m]

(* What the ledger says of a script that is being executed: STARTED, or    *)
(* APPLIED if it was reconciled for the objects of others.                 *)
SaysExecuting(m) == status[m] = "STARTED" \/ (status[m] = "APPLIED" /\ ~ OwnsObject(m))

(* A script commits only in the session that holds the advisory lock, for  *)
(* the migration that session is executing, and only under its ledger      *)
(* record: the record is always written ahead of the effect.               *)
CommitsUnderLock ==
  [][\A m \in Migrations : commits'[m] # commits[m] =>
       \E c \in Controllers : lockOwner = c /\ current[c] = m /\ SaysExecuting(m)]_vars

(* An outcome, once recorded, never changes, and no record is removed.     *)
OutcomesAreFinal ==
  [][\A m \in Migrations :
       /\ status[m] \in {"APPLIED", "FAILED"} => status'[m] = status[m]
       /\ status[m] # "NONE" => status'[m] # "NONE" /\ sha'[m] = sha[m]]_vars

(* The advisory lock is always given back, also by clients that crash.     *)
LockReleased == \A c \in Controllers : lockOwner = c ~> lockOwner # c

(* A rollback never removes a migration under one of the plan that depends *)
(* on it and is still in the schema.  (rollback.py, plan)                  *)
RollbackDependentsFirst ==
  [][\A m \in effects \ effects', k \in effects' :
       m \in DependsOn[k] => k \notin rollback]_vars

-----------------------------------------------------------------------------
(* The abstract history this runner implements.                            *)

Unresolved == {m \in Migrations : status[m] \in {"STARTED", "FAILED"}}

OpenMigration == IF Unresolved = {} THEN None ELSE CHOOSE m \in Migrations : m \in Unresolved

History == INSTANCE MigrationHistory WITH
  done   <- Applied,
  open   <- OpenMigration,
  ran    <- \E m \in Unresolved : commits[m] > 0,
  failed <- ~ NoFailedRecord

(* Every behaviour of the runner is a history: one migration at a time, in *)
(* dependency order, once, and nothing after an unresolved one.            *)
ImplementsHistory == History!Spec

-----------------------------------------------------------------------------
(* The inductive invariant: why the ledger can be trusted.                 *)

HolderHasLock == \A c \in Controllers : pc[c] \in Holding <=> lockOwner = c

EffectsCommitted == \A m \in effects : commits[m] > 0

AssessedCommitted == assessed # None /\ OwnsObject(assessed) => commits[assessed] > 0

RecordedOnDependencies ==
  \A m \in Migrations : status[m] # "NONE" => \A d \in DependsOn[m] : status[d] = "APPLIED"

CurrentRecord(c) ==
  /\ pc[c] \in Executing =>
       /\ current[c] \in Migrations
       /\ \A m \in Migrations \ {current[c]} : status[m] \in {"NONE", "APPLIED"}
  /\ pc[c] \in {"executing", "failing", "orphaned"} =>
       SaysExecuting(current[c]) /\ commits[current[c]] = 0
  /\ pc[c] = "marking" =>
       status[current[c]] \in {"STARTED", "APPLIED"} /\ commits[current[c]] = 1

LoopState(c) ==
  /\ pc[c] \in {"selecting", "applying"} =>
       \A m \in Migrations : status[m] \in {"NONE", "APPLIED"}
  /\ pc[c] \in {"applying"} \cup Executing =>
       pending[c] = {m \in Catalogue(checkout[c]) : status[m] = "NONE"}

SessionInv == \A c \in Controllers : CurrentRecord(c) /\ LoopState(c)

(* Every state of the runner: who holds the lock, what the session in it   *)
(* is doing to the one unresolved record, and what the other records say.  *)
Inv ==
  /\ TypeOK
  /\ LedgerTruth
  /\ CommittedAtMostOnce
  /\ OneUnresolved
  /\ RunnerAgreesWithLedger
  /\ HolderHasLock
  /\ EffectsCommitted
  /\ AssessedCommitted
  /\ RecordedOnDependencies
  /\ SessionInv

-----------------------------------------------------------------------------
(* recovery.py calls its decisions conservative: "Expected objects exist"  *)
(* is reconciled as APPLIED, so an applied migration has run.              *)
AppliedScriptsCommitted == \A m \in Migrations : status[m] = "APPLIED" => commits[m] > 0
=============================================================================
