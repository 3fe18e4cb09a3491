--------------------------- MODULE MigrationProofs ---------------------------
(***************************************************************************)
(* Proofs about the migration runner and its planner.                      *)
(*                                                                         *)
(* MigrationControl: for every set of controllers, migrations and          *)
(* checkouts, also those whose reconciliation goes wrong; only what is     *)
(* said of APPLIED records, and the refinement, needs OwnsObject.          *)
(*                                                                         *)
(* MigrationPlanner: for every finite catalogue, the greedy topological    *)
(* sort finds the order of the sequence numbers whenever there is one, and *)
(* the error it raises otherwise is the right one.                         *)
(***************************************************************************)
EXTENDS MigrationControl, MigrationPlanner, FiniteSetTheorems, WellFoundedInduction, TLAPS

(* Objects of a migration that declares one of its own are all present     *)
(* only if its script has run: what recovery.py infers is right then.      *)
LEMMA InspectionIsConclusive ==
  ASSUME NEW m \in Migrations, OwnsObject(m), effects \subseteq Migrations,
         ExpectedObjectsPresent(m)
  PROVE  m \in effects
<1>1. SUFFICES ASSUME m \notin effects PROVE FALSE
  OBVIOUS
<1>2. UNION {Expected[k] : k \in effects} \subseteq UNION {Expected[k] : k \in Migrations \ {m}}
  BY <1>1
<1>3. QED
  BY <1>2 DEF OwnsObject, ExpectedObjectsPresent

(* An empty ledger, nobody at work: the invariant holds to begin with.    *)
LEMMA InitInv == Init => Inv
<1> SUFFICES ASSUME Init PROVE Inv
  OBVIOUS
<1> USE MigrationsAssumption DEF Init
<1>1. TypeOK
  BY DEF TypeOK, Statuses, Pcs
<1>2. LedgerTruth /\ CommittedAtMostOnce /\ OneUnresolved /\ EffectsCommitted
  BY DEF LedgerTruth, CommittedAtMostOnce, OneUnresolved, EffectsCommitted
<1>3. RunnerAgreesWithLedger /\ AssessedCommitted /\ RecordedOnDependencies
  BY DEF RunnerAgreesWithLedger, AssessedCommitted, RecordedOnDependencies
<1>4. HolderHasLock
  BY DEF HolderHasLock, Holding, Executing
<1>5. SessionInv
  BY DEF SessionInv, CurrentRecord, SaysExecuting, OwnsObject, LoopState, Executing
<1>6. QED
  BY <1>1, <1>2, <1>3, <1>4, <1>5 DEF Inv

(* A checkout gives a digest, or Absent, to every migration.              *)
LEMMA CheckoutDigests ==
  ASSUME TypeOK, NEW c \in Controllers, NEW m \in Migrations
  PROVE  checkout[c][m] \in Checksums \cup {Absent}
<1>1. checkout[c] \in [Migrations -> Checksums \cup {Absent}]
  BY MigrationsAssumption DEF TypeOK
<1>2. QED
  BY <1>1

(* The part of Inv that says nothing of the sessions.                      *)
RecordInv ==
  /\ LedgerTruth
  /\ CommittedAtMostOnce
  /\ OneUnresolved
  /\ EffectsCommitted
  /\ AssessedCommitted
  /\ RecordedOnDependencies

(* A step that leaves ledger, schema and assessment alone keeps the part  *)
(* of Inv about them.                                                     *)
LEMMA RecordInvUntouched ==
  ASSUME RecordInv, UNCHANGED <<status, commits, effects, assessed>>
  PROVE  RecordInv'
BY DEF RecordInv, LedgerTruth, CommittedAtMostOnce, OneUnresolved, EffectsCommitted,
       AssessedCommitted, RecordedOnDependencies, OwnsObject

(* Inv is its parts about the records, the checks made of them, the lock  *)
(* and the sessions.                                                      *)
LEMMA InvIsRecordInv ==
  Inv <=> TypeOK /\ RecordInv /\ RunnerAgreesWithLedger /\ HolderHasLock /\ SessionInv
BY DEF Inv, RecordInv

(* A raise, the end of the loop or a crash: the session is over and the    *)
(* others do not notice.                                                   *)
LEMMA EndSessionStep ==
  ASSUME TypeOK, RecordInv, RunnerAgreesWithLedger, HolderHasLock, SessionInv,
         NEW c \in Controllers, EndSession(c),
         UNCHANGED <<ledgerVars, schemaVars, checkout, operatorVars>>
  PROVE  Inv'
<1> USE DEF ledgerVars, schemaVars, operatorVars, EndSession, Goto
<1>1. TypeOK'
  BY DEF TypeOK, Pcs
<1>2. RecordInv'
  BY RecordInvUntouched
<1>3. RunnerAgreesWithLedger'
  BY DEF RunnerAgreesWithLedger, TypeOK, Holding, Executing
<1>4. HolderHasLock'
  BY MigrationsAssumption DEF HolderHasLock, TypeOK, Holding, Executing
<1>5. SessionInv'
  BY DEF SessionInv, CurrentRecord, SaysExecuting, OwnsObject, LoopState, TypeOK, Executing
<1>6. QED
  BY <1>1, <1>2, <1>3, <1>4, <1>5, InvIsRecordInv DEF Inv, RecordInv

(* Starting an invocation (cli.py main) touches nothing but its own       *)
(* session.                                                               *)
LEMMA StartStep ==
  ASSUME Inv, NEW c \in Controllers, Start(c)
  PROVE  Inv'
<1> USE DEF Start, Goto, ledgerVars, schemaVars, operatorVars
<1>1. TypeOK'
  BY DEF Inv, TypeOK, Pcs
<1>2. RecordInv'
  BY InvIsRecordInv, RecordInvUntouched
<1>3. RunnerAgreesWithLedger'
  BY DEF Inv, RunnerAgreesWithLedger, TypeOK, Holding, Executing
<1>4. HolderHasLock'
  BY DEF Inv, HolderHasLock, TypeOK, Holding, Executing
<1>5. SessionInv'
  BY DEF Inv, SessionInv, CurrentRecord, SaysExecuting, OwnsObject, LoopState, TypeOK, Executing
<1>6. QED
  BY <1>1, <1>2, <1>3, <1>4, <1>5, InvIsRecordInv DEF Inv, RecordInv

(* Winning or losing pg_try_advisory_lock keeps the invariant.            *)
LEMMA TryLockStep ==
  ASSUME Inv, NEW c \in Controllers, TryLock(c)
  PROVE  Inv'
<1>1. CASE lockOwner # None
  BY <1>1, InvIsRecordInv, EndSessionStep DEF TryLock, LockFree
<1>2. CASE lockOwner = None
  <2> USE <1>2 DEF TryLock, LockFree, Goto, ledgerVars, schemaVars, operatorVars
  <2>1. TypeOK'
    BY DEF Inv, TypeOK, Pcs, Holding
  <2>2. RecordInv'
    BY InvIsRecordInv, RecordInvUntouched
  <2>3. RunnerAgreesWithLedger'
    BY DEF Inv, RunnerAgreesWithLedger, TypeOK, Holding, Executing
  <2>4. HolderHasLock'
    BY MigrationsAssumption DEF Inv, HolderHasLock, TypeOK, Holding, Executing
  <2>5. SessionInv'
    BY DEF Inv, SessionInv, CurrentRecord, SaysExecuting, OwnsObject, LoopState, TypeOK, Holding, Executing
  <2>6. QED
    BY <2>1, <2>2, <2>3, <2>4, <2>5, InvIsRecordInv DEF Inv, RecordInv
<1>3. QED
  BY <1>1, <1>2

(* verify() has seen that every record is APPLIED and agrees with the      *)
(* catalogue; nobody else can open one, because the lock is held.          *)
LEMMA VerifyStep ==
  ASSUME Inv, NEW c \in Controllers, Verify(c)
  PROVE  Inv'
<1>1. CASE ~ (LedgerConsistent(c) /\ NoFailedRecord)
  BY <1>1, InvIsRecordInv, EndSessionStep DEF Verify
<1>2. CASE LedgerConsistent(c) /\ NoFailedRecord
  <2> USE <1>2 DEF Verify, Goto, ledgerVars, schemaVars, operatorVars
  <2>1. TypeOK'
    BY DEF Inv, TypeOK, Pcs, Holding
  <2>2. RecordInv'
    BY InvIsRecordInv, RecordInvUntouched
  <2>3. RunnerAgreesWithLedger'
    BY DEF Inv, RunnerAgreesWithLedger, TypeOK, Holding, Executing, LedgerConsistent, HasRecord
  <2>4. HolderHasLock'
    BY DEF Inv, HolderHasLock, TypeOK, Holding, Executing
  <2>5. SessionInv'
    BY DEF Inv, SessionInv, CurrentRecord, SaysExecuting, OwnsObject, LoopState, TypeOK, Statuses, Holding, Executing,
           LedgerConsistent, NoFailedRecord, HasRecord
  <2>6. QED
    BY <2>1, <2>2, <2>3, <2>4, <2>5, InvIsRecordInv DEF Inv, RecordInv
<1>3. QED
  BY <1>1, <1>2

(* Between verify() and the second read of the ledger nothing has moved.   *)
LEMMA SelectPendingStep ==
  ASSUME Inv, NEW c \in Controllers, SelectPending(c)
  PROVE  Inv'
<1> USE DEF SelectPending, Goto, ledgerVars, schemaVars, operatorVars
<1>1. TypeOK'
  BY DEF Inv, TypeOK, Pcs, Holding, Catalogue
<1>2. RecordInv'
  BY InvIsRecordInv, RecordInvUntouched
<1>3. RunnerAgreesWithLedger'
  BY DEF Inv, RunnerAgreesWithLedger, TypeOK, Holding, Executing
<1>4. HolderHasLock'
  BY DEF Inv, HolderHasLock, TypeOK, Holding, Executing
<1>5. SessionInv'
  BY DEF Inv, SessionInv, CurrentRecord, SaysExecuting, OwnsObject, LoopState, TypeOK, Catalogue, Applied, Executing
<1>6. QED
  BY <1>1, <1>2, <1>3, <1>4, <1>5, InvIsRecordInv DEF Inv, RecordInv

(* The heart of the matter: when a record is opened every other one is     *)
(* APPLIED, and everything the migration depends on is behind it in the    *)
(* catalogue, so it has been visited.                                      *)
LEMMA NextIsOnItsDependencies ==
  ASSUME Inv, NEW c \in Controllers, pc[c] = "applying", NEW m \in pending[c], IsNext(m, c)
  PROVE  /\ m \in Migrations /\ m \in Catalogue(checkout[c]) /\ status[m] = "NONE"
         /\ \A k \in Migrations : status[k] \in {"NONE", "APPLIED"}
         /\ pending[c] = {k \in Catalogue(checkout[c]) : status[k] = "NONE"}
         /\ DependsOn[m] \subseteq Applied \ {m}
<1>1. /\ m \in Migrations /\ m \in Catalogue(checkout[c]) /\ status[m] = "NONE"
      /\ \A k \in Migrations : status[k] \in {"NONE", "APPLIED"}
      /\ pending[c] = {k \in Catalogue(checkout[c]) : status[k] = "NONE"}
  BY DEF Inv, SessionInv, LoopState, Catalogue
<1>2. ASSUME NEW d \in DependsOn[m] PROVE d \in Applied /\ d # m
  <2>1. d \in Migrations /\ d < m /\ d \in Catalogue(checkout[c])
    BY <1>1, MigrationsAssumption DEF Inv, TypeOK
  <2>2. d \notin pending[c] /\ d # m
    BY <1>1, <2>1, MigrationsAssumption DEF IsNext
  <2>3. status[d] # "NONE"
    BY <1>1, <2>1, <2>2
  <2>4. QED
    BY <1>1, <2>1, <2>2, <2>3 DEF Applied
<1>3. QED
  BY <1>1, <1>2

(* ledger_insert_started opens a record for the next migration only, and  *)
(* nothing else is unresolved then.                                       *)
LEMMA InsertStartedStep ==
  ASSUME Inv, NEW c \in Controllers, InsertStarted(c)
  PROVE  Inv'
<1>0. pc[c] = "applying" /\ UNCHANGED <<schemaVars, checkout, operatorVars>>
  BY DEF InsertStarted
<1>1. PICK m \in pending[c] :
        /\ IsNext(m, c)
        /\ IF HasRecord(m)
             THEN EndSession(c) /\ UNCHANGED ledgerVars
             ELSE /\ status' = [status EXCEPT ![m] = "STARTED"]
                  /\ sha' = [sha EXCEPT ![m] = checkout[c][m]]
                  /\ current' = [current EXCEPT ![c] = m]
                  /\ pending' = [pending EXCEPT ![c] = @ \ {m}]
                  /\ Goto(c, "executing")
                  /\ UNCHANGED lockOwner
  BY DEF InsertStarted
<1>2. CASE HasRecord(m)
  BY <1>0, <1>1, <1>2, InvIsRecordInv, EndSessionStep
<1>3. CASE ~ HasRecord(m)
  <2> USE <1>0, <1>1, <1>3 DEF Goto, ledgerVars, schemaVars, operatorVars
  <2>1. /\ m \in Migrations /\ m \in Catalogue(checkout[c]) /\ status[m] = "NONE"
        /\ \A k \in Migrations : status[k] \in {"NONE", "APPLIED"}
        /\ pending[c] = {k \in Catalogue(checkout[c]) : status[k] = "NONE"}
        /\ DependsOn[m] \subseteq Applied \ {m}
    BY NextIsOnItsDependencies
  <2>2. checkout[c][m] \in Checksums \cup {Absent} /\ checkout[c] \in Checkouts
    BY <2>1, CheckoutDigests DEF Inv, TypeOK
  <2>3. \A d \in DependsOn[m] : d \in Migrations /\ status[d] = "APPLIED" /\ d # m
    BY <2>1 DEF Applied
  <2>4. TypeOK'
    BY <2>1, <2>2 DEF Inv, TypeOK, Statuses, Pcs, Holding, Executing
  <2>5. RecordInv'
    <3>1. LedgerTruth' /\ CommittedAtMostOnce'
      BY <2>1 DEF Inv, TypeOK, LedgerTruth, CommittedAtMostOnce
    <3>2. OneUnresolved'
      <4>1. \A k \in Migrations \ {m} : status'[k] \in {"NONE", "APPLIED"}
        BY <2>1 DEF Inv, TypeOK
      <4>2. QED
        BY <4>1 DEF OneUnresolved
    <3>3. EffectsCommitted' /\ AssessedCommitted'
      BY DEF Inv, EffectsCommitted, AssessedCommitted, OwnsObject
    <3>4. RecordedOnDependencies'
      <4>1. \A k \in Migrations : status[k] = "APPLIED" => status'[k] = "APPLIED"
        BY <2>1 DEF Inv, TypeOK
      <4>2. \A k \in Migrations \ {m} : status'[k] = status[k]
        BY <2>1 DEF Inv, TypeOK
      <4>3. \A k \in Migrations : DependsOn[k] \subseteq Migrations
        BY MigrationsAssumption
      <4>4. RecordedOnDependencies
        BY DEF Inv
      <4>5. QED
        BY <2>3, <4>1, <4>2, <4>3, <4>4 DEF RecordedOnDependencies
    <3>5. QED
      BY <3>1, <3>2, <3>3, <3>4 DEF RecordInv
  <2>6. HolderHasLock'
    BY DEF Inv, HolderHasLock, TypeOK, Holding, Executing
  <2>7. \A x \in Controllers \ {c} : pc'[x] \notin Holding /\ pc'[x] = pc[x]
    BY DEF Inv, HolderHasLock, TypeOK, Holding
  <2>8. RunnerAgreesWithLedger'
    BY <2>1, <2>7 DEF Inv, RunnerAgreesWithLedger, TypeOK, Holding, Executing
  <2>9. SessionInv'
    <3>1. commits[m] = 0
      BY <2>1 DEF Inv, LedgerTruth
    <3>2. pending'[c] = {k \in Catalogue(checkout[c]) : status'[k] = "NONE"}
      BY <2>1 DEF Inv, TypeOK, Catalogue
    <3>3. CurrentRecord(c)' /\ LoopState(c)'
      BY <2>1, <3>1, <3>2
      DEF Inv, TypeOK, CurrentRecord, SaysExecuting, LoopState, Catalogue, Executing
    <3>4. ASSUME NEW x \in Controllers \ {c} PROVE CurrentRecord(x)' /\ LoopState(x)'
      BY <2>7, <3>4 DEF CurrentRecord, LoopState, Holding, Executing
    <3>5. QED
      BY <3>3, <3>4 DEF SessionInv
  <2>10. QED
    BY <2>4, <2>5, <2>6, <2>8, <2>9, InvIsRecordInv DEF Inv, RecordInv
<1>4. QED
  BY <1>2, <1>3

(* A script that fails commits nothing: the record stays STARTED until it *)
(* is marked.                                                             *)
LEMMA SqlFailsStep ==
  ASSUME Inv, NEW c \in Controllers, SqlFails(c)
  PROVE  Inv'
<1> USE DEF SqlFails, Goto, ledgerVars, schemaVars, operatorVars
<1>1. TypeOK'
  BY DEF Inv, TypeOK, Pcs, Holding, Executing
<1>2. RecordInv'
  BY InvIsRecordInv, RecordInvUntouched
<1>3. RunnerAgreesWithLedger'
  BY DEF Inv, RunnerAgreesWithLedger, TypeOK, Holding, Executing
<1>4. HolderHasLock'
  BY DEF Inv, HolderHasLock, TypeOK, Holding, Executing
<1>5. SessionInv'
  BY DEF Inv, SessionInv, CurrentRecord, SaysExecuting, OwnsObject, LoopState, TypeOK, Holding, Executing
<1>6. QED
  BY <1>1, <1>2, <1>3, <1>4, <1>5, InvIsRecordInv DEF Inv, RecordInv

(* A client lost during a script leaves its backend, and the lock,        *)
(* behind.                                                                *)
LEMMA CrashWhileExecutingStep ==
  ASSUME Inv, NEW c \in Controllers, CrashWhileExecuting(c)
  PROVE  Inv'
<1> USE DEF CrashWhileExecuting, Goto, ledgerVars, schemaVars, operatorVars
<1>1. TypeOK'
  BY DEF Inv, TypeOK, Pcs, Holding, Executing
<1>2. RecordInv'
  BY InvIsRecordInv, RecordInvUntouched
<1>3. RunnerAgreesWithLedger'
  BY DEF Inv, RunnerAgreesWithLedger, TypeOK, Holding, Executing
<1>4. HolderHasLock'
  BY DEF Inv, HolderHasLock, TypeOK, Holding, Executing
<1>5. SessionInv'
  BY DEF Inv, SessionInv, CurrentRecord, SaysExecuting, OwnsObject, LoopState, TypeOK, Holding, Executing
<1>6. QED
  BY <1>1, <1>2, <1>3, <1>4, <1>5, InvIsRecordInv DEF Inv, RecordInv

(* A forward script commits, in a session whose client is alive or gone.   *)
LEMMA CommitForwardFacts ==
  ASSUME Inv, NEW c \in Controllers, pc[c] \in {"executing", "orphaned"},
         CommitForward(current[c]), UNCHANGED <<status, assessed>>
  PROVE  /\ RecordInv'
         /\ commits' \in [Migrations -> Nat] /\ effects' \subseteq Migrations
         /\ \A m \in Migrations \ {current[c]} : commits'[m] = commits[m]
         /\ commits'[current[c]] = 1
<1> USE DEF CommitForward
<1>1. /\ current[c] \in Migrations /\ status[current[c]] \in {"STARTED", "APPLIED"}
      /\ commits[current[c]] = 0
  BY DEF Inv, SessionInv, CurrentRecord, SaysExecuting, Executing
<1>2. /\ commits' \in [Migrations -> Nat] /\ effects' \subseteq Migrations
      /\ \A m \in Migrations \ {current[c]} : commits'[m] = commits[m]
      /\ commits'[current[c]] = 1
  BY <1>1 DEF Inv, TypeOK
<1>3. RecordInv'
  BY <1>1, <1>2 DEF Inv, RecordInv, LedgerTruth, CommittedAtMostOnce, OneUnresolved,
       EffectsCommitted, AssessedCommitted, RecordedOnDependencies, OwnsObject, TypeOK
<1>4. QED
  BY <1>2, <1>3

(* One session holds the lock, so every other one is outside the locked   *)
(* section.                                                               *)
LEMMA OthersDoNotHold ==
  ASSUME Inv, NEW c \in Controllers, pc[c] \in Holding
  PROVE  \A x \in Controllers \ {c} : pc[x] \notin Holding
BY DEF Inv, HolderHasLock

(* The COMMIT of a forward script is the first one of that script.        *)
LEMMA SqlCommitsStep ==
  ASSUME Inv, NEW c \in Controllers, SqlCommits(c)
  PROVE  Inv'
<1> USE DEF SqlCommits, Goto, ledgerVars, schemaVars, operatorVars
<1>1. /\ RecordInv'
      /\ commits' \in [Migrations -> Nat] /\ effects' \subseteq Migrations
      /\ commits'[current[c]] = 1
  BY CommitForwardFacts
<1>2. TypeOK'
  BY <1>1 DEF Inv, TypeOK, Pcs, Holding, Executing
<1>3. RunnerAgreesWithLedger'
  BY DEF Inv, RunnerAgreesWithLedger, TypeOK, Holding, Executing
<1>4. HolderHasLock'
  BY DEF Inv, HolderHasLock, TypeOK, Holding, Executing
<1>5. SessionInv'
  BY <1>1, OthersDoNotHold
  DEF Inv, SessionInv, CurrentRecord, SaysExecuting, OwnsObject, LoopState, TypeOK, Holding, Executing
<1>6. QED
  BY <1>1, <1>2, <1>3, <1>4, <1>5, InvIsRecordInv DEF Inv, RecordInv

(* An abandoned backend commits a script whose record stays STARTED.      *)
LEMMA OrphanCommitsStep ==
  ASSUME Inv, NEW c \in Controllers, OrphanCommits(c)
  PROVE  Inv'
<1> USE DEF OrphanCommits, EndSession, Goto, ledgerVars, operatorVars
<1>1. RecordInv' /\ commits' \in [Migrations -> Nat] /\ effects' \subseteq Migrations
  BY CommitForwardFacts
<1>2. TypeOK'
  BY <1>1 DEF Inv, TypeOK, Pcs
<1>3. RunnerAgreesWithLedger'
  BY DEF Inv, RunnerAgreesWithLedger, TypeOK, Holding, Executing
<1>4. HolderHasLock'
  BY MigrationsAssumption DEF Inv, HolderHasLock, TypeOK, Holding, Executing
<1>5. SessionInv'
  BY OthersDoNotHold
  DEF Inv, SessionInv, CurrentRecord, SaysExecuting, OwnsObject, LoopState, TypeOK, Holding, Executing
<1>6. QED
  BY <1>1, <1>2, <1>3, <1>4, <1>5, InvIsRecordInv DEF Inv, RecordInv

(* An UPDATE ... WHERE status='STARTED' to APPLIED, after the script has   *)
(* committed or seems to have.                                             *)
LEMMA UpdateAppliedFacts ==
  ASSUME Inv, NEW m \in Migrations, OwnsObject(m) => commits[m] > 0,
         LedgerUpdate(m, "APPLIED"),
         UNCHANGED <<commits, effects>>, assessed' \in {assessed, None}
  PROVE  /\ RecordInv'
         /\ status' \in [Migrations -> Statuses]
         /\ \A k \in Migrations : status'[k] = status[k]
                \/ (status[k] = "STARTED" /\ status'[k] = "APPLIED")
         /\ status'[m] # "STARTED"
<1> USE DEF LedgerUpdate
<1>1. OwnsObject(m) => commits[m] = 1
  BY DEF Inv, CommittedAtMostOnce, TypeOK
<1>2. /\ status' \in [Migrations -> Statuses]
      /\ \A k \in Migrations : status'[k] = status[k]
             \/ (status[k] = "STARTED" /\ status'[k] = "APPLIED")
      /\ \A k \in Migrations \ {m} : status'[k] = status[k]
      /\ status'[m] # "STARTED"
  BY DEF Inv, TypeOK, Statuses
<1>3. LedgerTruth' /\ CommittedAtMostOnce' /\ OneUnresolved'
  BY <1>1, <1>2 DEF Inv, LedgerTruth, CommittedAtMostOnce, OneUnresolved, TypeOK, Statuses
<1>4. EffectsCommitted' /\ AssessedCommitted'
  BY DEF Inv, EffectsCommitted, AssessedCommitted, OwnsObject
<1>5. RecordedOnDependencies'
  BY <1>2, MigrationsAssumption DEF Inv, RecordedOnDependencies
<1>6. QED
  BY <1>2, <1>3, <1>4, <1>5 DEF RecordInv

(* Marking APPLIED records an effect that has been committed.             *)
LEMMA MarkAppliedStep ==
  ASSUME Inv, NEW c \in Controllers, MarkApplied(c)
  PROVE  Inv'
<1> USE DEF MarkApplied, Goto, schemaVars, operatorVars
<1>1. /\ current[c] \in Migrations /\ commits[current[c]] = 1
      /\ \A m \in Migrations \ {current[c]} : status[m] \in {"NONE", "APPLIED"}
      /\ status[current[c]] \in {"STARTED", "APPLIED"}
  BY DEF Inv, SessionInv, CurrentRecord, Executing
<1>2. /\ RecordInv'
      /\ status' \in [Migrations -> Statuses]
      /\ \A k \in Migrations : status'[k] = status[k] \/ (status[k] = "STARTED" /\ status'[k] = "APPLIED")
      /\ status'[current[c]] = "APPLIED"
  BY <1>1, UpdateAppliedFacts DEF LedgerUpdate
<1>3. TypeOK'
  BY <1>2 DEF Inv, TypeOK, Pcs, Holding
<1>4. RunnerAgreesWithLedger'
  BY <1>2 DEF Inv, RunnerAgreesWithLedger, TypeOK, Holding, Executing
<1>5. HolderHasLock'
  BY DEF Inv, HolderHasLock, TypeOK, Holding, Executing
<1>6. SessionInv'
  BY <1>1, <1>2, OthersDoNotHold
  DEF Inv, SessionInv, CurrentRecord, SaysExecuting, OwnsObject, LoopState, TypeOK, Catalogue, Holding, Executing
<1>7. QED
  BY <1>2, <1>3, <1>4, <1>5, <1>6, InvIsRecordInv DEF Inv, RecordInv

(* Marking FAILED records a script that has not been committed.           *)
LEMMA MarkFailedStep ==
  ASSUME Inv, NEW c \in Controllers, MarkFailed(c)
  PROVE  Inv'
<1> USE DEF MarkFailed, EndSession, Goto, LedgerUpdate, schemaVars, operatorVars
<1>1. /\ current[c] \in Migrations /\ status[current[c]] \in {"STARTED", "APPLIED"}
      /\ commits[current[c]] = 0
  BY DEF Inv, SessionInv, CurrentRecord, SaysExecuting, Executing
<1>2. TypeOK'
  BY <1>1 DEF Inv, TypeOK, Pcs, Statuses
<1>3. RecordInv'
  BY <1>1, MigrationsAssumption
  DEF Inv, RecordInv, LedgerTruth, CommittedAtMostOnce, OneUnresolved,
      EffectsCommitted, AssessedCommitted, RecordedOnDependencies, OwnsObject, TypeOK
<1>4. RunnerAgreesWithLedger'
  BY <1>1, OthersDoNotHold DEF Inv, RunnerAgreesWithLedger, TypeOK, Holding, Executing
<1>5. HolderHasLock'
  BY MigrationsAssumption DEF Inv, HolderHasLock, TypeOK, Holding, Executing
<1>6. SessionInv'
  BY OthersDoNotHold
  DEF Inv, SessionInv, CurrentRecord, SaysExecuting, OwnsObject, LoopState, TypeOK, Holding, Executing
<1>7. QED
  BY <1>2, <1>3, <1>4, <1>5, <1>6, InvIsRecordInv DEF Inv, RecordInv

(* Reconciling a migration that has been seen to be committed keeps the   *)
(* invariant.                                                             *)
LEMMA ReconcileStep == Inv /\ Reconcile => Inv'
<1> SUFFICES ASSUME Inv, Reconcile PROVE Inv'
  OBVIOUS
<1> USE DEF Reconcile, schemaVars
<1>1. assessed \in Migrations /\ (OwnsObject(assessed) => commits[assessed] > 0)
  BY DEF Inv, TypeOK, AssessedCommitted
<1>2. /\ RecordInv'
      /\ status' \in [Migrations -> Statuses]
      /\ \A k \in Migrations : status'[k] = status[k] \/ (status[k] = "STARTED" /\ status'[k] = "APPLIED")
  BY <1>1, UpdateAppliedFacts
<1>3. TypeOK'
  BY <1>2 DEF Inv, TypeOK
<1>4. RunnerAgreesWithLedger'
  BY <1>2 DEF Inv, RunnerAgreesWithLedger, Holding, Executing
<1>5. HolderHasLock'
  BY DEF Inv, HolderHasLock
<1>6. SessionInv'
  <2> SUFFICES ASSUME NEW x \in Controllers PROVE CurrentRecord(x)' /\ LoopState(x)'
    BY DEF SessionInv
  <2>1. CurrentRecord(x) /\ LoopState(x)
    BY DEF Inv, SessionInv
  <2>2. {k \in Catalogue(checkout[x]) : status'[k] = "NONE"} = {k \in Catalogue(checkout[x]) : status[k] = "NONE"}
    BY <1>2 DEF Catalogue
  <2>3. LoopState(x)'
    BY <1>2, <2>1, <2>2 DEF LoopState, Catalogue
  <2>4. pc[x] \in {"executing", "failing", "orphaned"} =>
          assessed # current[x] \/ ~ OwnsObject(current[x])
    BY <1>1, <2>1 DEF CurrentRecord
  <2>5. pc[x] \in Executing => current[x] \in Migrations
    BY <2>1 DEF CurrentRecord
  <2>6. pc[x] \in {"executing", "failing", "orphaned"} => SaysExecuting(current[x])'
    BY <1>1, <1>2, <2>1, <2>4, <2>5 DEF CurrentRecord, SaysExecuting, LedgerUpdate, Inv, TypeOK, Executing
  <2>7. CurrentRecord(x)'
    BY <1>1, <1>2, <2>1, <2>5, <2>6 DEF CurrentRecord, SaysExecuting, Executing
  <2>8. QED
    BY <2>3, <2>7
<1>7. QED
  BY <1>2, <1>3, <1>4, <1>5, <1>6, InvIsRecordInv DEF Inv, RecordInv

(* Assessing, planning and executing a rollback leave the ledger and the   *)
(* sessions alone; what is assessed has committed if it owns an object.    *)
LEMMA OperatorStepInv ==
  ASSUME Inv, OperatorStep
  PROVE  Inv'
<1>1. ASSUME NEW m \in Migrations, Assess(m) PROVE Inv'
  <2>1. OwnsObject(m) => m \in effects
    BY <1>1, InspectionIsConclusive DEF Assess, Decision, Inv, TypeOK, Statuses
  <2>2. QED
    BY <1>1, <2>1
    DEF Assess, Inv, TypeOK, LedgerTruth, CommittedAtMostOnce, OneUnresolved,
        RunnerAgreesWithLedger, HolderHasLock, EffectsCommitted, AssessedCommitted,
        RecordedOnDependencies, SessionInv, CurrentRecord, SaysExecuting, OwnsObject, LoopState, ledgerVars, schemaVars
<1>2. ASSUME NEW effs, NEW rb, effs \subseteq effects, rb \subseteq Migrations,
             effects' = effs, rollback' = rb,
             UNCHANGED <<ledgerVars, commits, lockOwner, pc, checkout, pending, current, assessed>>
      PROVE  Inv'
  BY <1>2
  DEF Inv, TypeOK, LedgerTruth, CommittedAtMostOnce, OneUnresolved,
      RunnerAgreesWithLedger, HolderHasLock, EffectsCommitted, AssessedCommitted,
      RecordedOnDependencies, SessionInv, CurrentRecord, SaysExecuting, OwnsObject, LoopState, ledgerVars
<1>3. ASSUME NEW m \in Migrations, PlanRollback(m) PROVE Inv'
  BY <1>2, <1>3 DEF PlanRollback, RollbackPlan, Applied, schemaVars
<1>4. CASE RollbackStep
  BY <1>2, <1>4 DEF RollbackStep, Inv, TypeOK
<1>5. CASE RollbackFails
  BY <1>2, <1>5 DEF RollbackFails, schemaVars
<1>6. QED
  BY <1>1, <1>3, <1>4, <1>5, ReconcileStep DEF OperatorStep

(* Every step keeps the invariant.                                        *)
LEMMA NextInv == Inv /\ [Next]_vars => Inv'
<1> SUFFICES ASSUME Inv, [Next]_vars PROVE Inv'
  OBVIOUS
<1>1. ASSUME NEW c \in Controllers, ControllerStep(c) PROVE Inv'
  <2>1. CASE Finish(c)
    BY <2>1, InvIsRecordInv, EndSessionStep DEF Finish
  <2>2. QED
    BY <1>1, <2>1, TryLockStep, VerifyStep, SelectPendingStep, InsertStartedStep,
       SqlCommitsStep, SqlFailsStep, MarkAppliedStep, MarkFailedStep DEF ControllerStep
<1>2. ASSUME NEW c \in Controllers, OrphanStep(c) PROVE Inv'
  <2>1. CASE OrphanAborts(c)
    BY <2>1, InvIsRecordInv, EndSessionStep DEF OrphanAborts
  <2>2. QED
    BY <1>2, <2>1, OrphanCommitsStep DEF OrphanStep
<1>3. ASSUME NEW c \in Controllers, Crash(c) PROVE Inv'
  BY <1>3, InvIsRecordInv, EndSessionStep DEF Crash
<1>4. CASE UNCHANGED vars
  <2> USE <1>4 DEF vars, ledgerVars, schemaVars, operatorVars
  <2>1. TypeOK' /\ RecordInv'
    BY InvIsRecordInv, RecordInvUntouched DEF TypeOK
  <2>2. RunnerAgreesWithLedger' /\ HolderHasLock'
    BY DEF Inv, RunnerAgreesWithLedger, HolderHasLock
  <2>3. SessionInv'
    BY DEF Inv, SessionInv, CurrentRecord, SaysExecuting, OwnsObject, LoopState
  <2>4. QED
    BY <2>1, <2>2, <2>3 DEF Inv, RecordInv
<1>5. QED
  BY <1>1, <1>2, <1>3, <1>4, StartStep, CrashWhileExecutingStep, OperatorStepInv DEF Next

(* The inductive invariant, for every number of controllers, migrations    *)
(* and checkouts.                                                          *)
THEOREM SpecInv == Spec => []Inv
<1>1. Inv /\ [Next]_vars => Inv'
  BY NextInv
<1>2. QED
  BY <1>1, InitInv, PTL DEF Spec

(* The ledger says what committed, of any migration that declares an       *)
(* object of its own, whatever the others declare.                         *)
THEOREM LedgerIsTrue == Spec => []LedgerTruth
BY SpecInv, PTL DEF Inv

(* Well-typedness, a conjunct of the inductive invariant.                  *)
THEOREM Typing == Spec => []TypeOK
BY SpecInv, PTL DEF Inv

(* No forward script commits twice.                                        *)
THEOREM AtMostOnce == Spec => []CommittedAtMostOnce
BY SpecInv, PTL DEF Inv

(* At most one migration is ever started or failed.                        *)
THEOREM AtMostOneUnresolved == Spec => []OneUnresolved
BY SpecInv, PTL DEF Inv

(* verify() does not go stale while the lock is held.                      *)
THEOREM VerificationStaysValid == Spec => []RunnerAgreesWithLedger
BY SpecInv, PTL DEF Inv

(* Scripts commit on top of applied dependencies only.                     *)
THEOREM DependenciesFirst == Spec => []DependenciesApplied
<1>1. Inv => DependenciesApplied
  BY DEF Inv, TypeOK, LedgerTruth, RecordedOnDependencies, DependenciesApplied
<1>2. QED
  BY <1>1, SpecInv, PTL

-----------------------------------------------------------------------------
(* Everything a step can do to the ledger and to the scripts.              *)

Opens(m) ==
  /\ \A k \in Migrations : status[k] \in {"NONE", "APPLIED"}
  /\ status[m] = "NONE"
  /\ DependsOn[m] \subseteq Applied
  /\ status' = [status EXCEPT ![m] = "STARTED"]
  /\ \A k \in Migrations \ {m} : sha'[k] = sha[k]
  /\ UNCHANGED commits

Runs(m) ==
  /\ \E c \in Controllers : lockOwner = c /\ current[c] = m
  /\ SaysExecuting(m) /\ commits[m] = 0
  /\ commits' = [commits EXCEPT ![m] = 1]
  /\ UNCHANGED ledgerVars

Closes(m) ==
  /\ status[m] = "STARTED" /\ (OwnsObject(m) => commits[m] = 1)
  /\ status' = [status EXCEPT ![m] = "APPLIED"]
  /\ UNCHANGED <<sha, commits>>

Fails(m) ==
  /\ status[m] = "STARTED" /\ commits[m] = 0
  /\ status' = [status EXCEPT ![m] = "FAILED"]
  /\ UNCHANGED <<sha, commits>>

(* What a step can do to the records and the commit counts, whoever takes *)
(* it.                                                                    *)
LEMMA StepKinds ==
  ASSUME Inv, [Next]_vars
  PROVE  \/ UNCHANGED <<status, sha, commits>>
         \/ \E m \in Migrations : Opens(m) \/ Runs(m) \/ Closes(m) \/ Fails(m)
<1> DEFINE Goal == \/ UNCHANGED <<status, sha, commits>>
                   \/ \E m \in Migrations : Opens(m) \/ Runs(m) \/ Closes(m) \/ Fails(m)
<1> USE DEF ledgerVars, schemaVars
<1>1. ASSUME NEW c \in Controllers, InsertStarted(c) PROVE Goal
  <2>1. PICK m \in pending[c] :
          /\ IsNext(m, c)
          /\ \/ UNCHANGED ledgerVars
             \/ /\ status' = [status EXCEPT ![m] = "STARTED"]
                /\ sha' = [sha EXCEPT ![m] = checkout[c][m]]
    BY <1>1 DEF InsertStarted
  <2>2. pc[c] = "applying" /\ UNCHANGED commits
    BY <1>1 DEF InsertStarted
  <2>3. /\ m \in Migrations /\ status[m] = "NONE" /\ DependsOn[m] \subseteq Applied
        /\ \A k \in Migrations : status[k] \in {"NONE", "APPLIED"}
    BY <2>1, <2>2, NextIsOnItsDependencies
  <2>4. CASE UNCHANGED ledgerVars
    BY <2>2, <2>4
  <2>5. CASE /\ status' = [status EXCEPT ![m] = "STARTED"]
             /\ sha' = [sha EXCEPT ![m] = checkout[c][m]]
    <3>1. \A k \in Migrations \ {m} : sha'[k] = sha[k]
      BY <2>5 DEF Inv, TypeOK
    <3>2. Opens(m)
      BY <2>2, <2>3, <2>5, <3>1 DEF Opens
    <3>3. QED
      BY <2>3, <3>2
  <2>6. QED
    BY <2>1, <2>4, <2>5
<1>2. ASSUME NEW c \in Controllers, pc[c] \in {"executing", "orphaned"},
             CommitForward(current[c]), UNCHANGED ledgerVars
      PROVE  Goal
  <2>1. current[c] \in Migrations /\ SaysExecuting(current[c]) /\ commits[current[c]] = 0
    BY <1>2 DEF Inv, SessionInv, CurrentRecord, Executing
  <2>2. lockOwner = c
    BY <1>2 DEF Inv, HolderHasLock, Holding, Executing
  <2>3. Runs(current[c])
    BY <1>2, <2>1, <2>2 DEF CommitForward, Runs, Inv, TypeOK
  <2>4. QED
    BY <2>1, <2>3
<1>3. ASSUME NEW m \in Migrations, OwnsObject(m) => commits[m] > 0, LedgerUpdate(m, "APPLIED"), UNCHANGED <<sha, commits>>
      PROVE  Goal
  <2>1. CASE status[m] # "STARTED"
    BY <1>3, <2>1 DEF LedgerUpdate
  <2>2. CASE status[m] = "STARTED"
    <3>1. OwnsObject(m) => commits[m] = 1
      BY <1>3 DEF Inv, CommittedAtMostOnce, TypeOK
    <3>2. Closes(m)
      BY <1>3, <2>2, <3>1 DEF LedgerUpdate, Closes
    <3>3. QED
      BY <3>2
  <2>3. QED
    BY <2>1, <2>2
<1>4. ASSUME NEW c \in Controllers, MarkApplied(c) PROVE Goal
  <2>1. current[c] \in Migrations /\ commits[current[c]] > 0
    BY <1>4 DEF MarkApplied, Inv, SessionInv, CurrentRecord, Executing
  <2>2. QED
    BY <1>3, <1>4, <2>1 DEF MarkApplied
<1>5. ASSUME NEW c \in Controllers, MarkFailed(c) PROVE Goal
  <2>1. current[c] \in Migrations /\ commits[current[c]] = 0
    BY <1>5 DEF MarkFailed, Inv, SessionInv, CurrentRecord, Executing
  <2>2. status[current[c]] = "STARTED" => Fails(current[c])
    BY <1>5, <2>1 DEF MarkFailed, LedgerUpdate, Fails, schemaVars
  <2>3. status[current[c]] # "STARTED" => UNCHANGED <<status, sha, commits>>
    BY <1>5 DEF MarkFailed, LedgerUpdate, schemaVars
  <2>4. QED
    BY <2>1, <2>2, <2>3
<1>6. CASE Reconcile
  <2>1. assessed \in Migrations /\ (OwnsObject(assessed) => commits[assessed] > 0)
    BY <1>6 DEF Reconcile, Inv, TypeOK, AssessedCommitted
  <2>2. QED
    BY <1>3, <1>6, <2>1 DEF Reconcile
<1>7. ASSUME NEW c \in Controllers,
             \/ Start(c) \/ TryLock(c) \/ Verify(c) \/ SelectPending(c) \/ SqlFails(c) \/ Finish(c)
             \/ Crash(c) \/ CrashWhileExecuting(c) \/ OrphanAborts(c)
      PROVE  Goal
  BY <1>7 DEF Start, TryLock, Verify, SelectPending, SqlFails, Finish, Crash,
              CrashWhileExecuting, OrphanAborts
<1>8. CASE \/ \E m \in Migrations : Assess(m) \/ PlanRollback(m)
           \/ RollbackStep \/ RollbackFails
  BY <1>8 DEF Assess, PlanRollback, RollbackStep, RollbackFails
<1>9. ASSUME NEW c \in Controllers, SqlCommits(c) \/ OrphanCommits(c) PROVE Goal
  BY <1>2, <1>9 DEF SqlCommits, OrphanCommits
<1>10. CASE UNCHANGED vars
  BY <1>10 DEF vars
<1>11. QED
  BY <1>1, <1>4, <1>5, <1>6, <1>7, <1>8, <1>9, <1>10
  DEF Next, ControllerStep, OrphanStep, OperatorStep

(* Scripts commit only in the session that holds the lock, after their     *)
(* ledger record was written and before its outcome is, but for what was   *)
(* reconciled too early.                                                   *)
THEOREM WriteAhead == Spec => CommitsUnderLock
<1> DEFINE A == \A m \in Migrations : commits'[m] # commits[m] =>
                  \E c \in Controllers : lockOwner = c /\ current[c] = m /\ SaysExecuting(m)
<1>1. Inv /\ [Next]_vars => A
  <2> SUFFICES ASSUME Inv, [Next]_vars, NEW m \in Migrations, commits'[m] # commits[m]
               PROVE  Runs(m)
    BY DEF Runs
  <2>1. PICK k \in Migrations : Runs(k)
    BY StepKinds DEF Opens, Closes, Fails
  <2>2. QED
    BY <2>1 DEF Runs, Inv, TypeOK
<1>2. Inv /\ [Next]_vars => [A]_vars
  BY <1>1
<1>3. QED
  BY <1>2, SpecInv, PTL DEF Spec, CommitsUnderLock

(* Recorded outcomes are final and records are never removed or altered.   *)
THEOREM FinalOutcomes == Spec => OutcomesAreFinal
<1> DEFINE A == \A m \in Migrations :
                  /\ status[m] \in {"APPLIED", "FAILED"} => status'[m] = status[m]
                  /\ status[m] # "NONE" => status'[m] # "NONE" /\ sha'[m] = sha[m]
<1>1. Inv /\ [Next]_vars => A
  <2> SUFFICES ASSUME Inv, [Next]_vars PROVE A
    OBVIOUS
  <2>1. CASE UNCHANGED <<status, sha, commits>>
    BY <2>1
  <2>2. ASSUME NEW k \in Migrations, Opens(k) \/ Runs(k) \/ Closes(k) \/ Fails(k) PROVE A
    BY <2>2 DEF Opens, Runs, Closes, Fails, ledgerVars, Inv, TypeOK
  <2>3. QED
    BY <2>1, <2>2, StepKinds
<1>2. Inv /\ [Next]_vars => [A]_vars
  BY <1>1
<1>3. QED
  BY <1>2, SpecInv, PTL DEF Spec, OutcomesAreFinal

(* A rollback goes backwards, so what depends on a migration goes before   *)
(* it: a script of a plan is never undone under another one of it.         *)
THEOREM RollbackOrder == Spec => RollbackDependentsFirst
<1> DEFINE A == \A m \in effects \ effects', k \in effects' : m \in DependsOn[k] => k \notin rollback
<1>1. Inv /\ [Next]_vars => [A]_vars
  <2> SUFFICES ASSUME Inv, Next, NEW m \in effects \ effects', NEW k \in effects',
                      m \in DependsOn[k], k \in rollback
               PROVE  FALSE
    OBVIOUS
  <2>1. RollbackStep
    BY DEF Next, ControllerStep, OrphanStep, OperatorStep, Start, TryLock, Verify, SelectPending,
           InsertStarted, SqlCommits, SqlFails, MarkApplied, MarkFailed, Finish, Crash,
           CrashWhileExecuting, OrphanCommits, OrphanAborts, CommitForward, Assess, Reconcile,
           PlanRollback, RollbackFails, schemaVars
  <2>2. IsNextRollback(m)
    BY <2>1 DEF RollbackStep
  <2>3. k \in Migrations /\ m < k /\ m \in Nat /\ k \in Nat
    BY MigrationsAssumption DEF Inv, TypeOK
  <2>4. k <= m
    BY <2>2 DEF IsNextRollback
  <2>5. QED
    BY <2>3, <2>4
<1>2. QED
  BY <1>1, SpecInv, PTL DEF Spec, RollbackDependentsFirst

-----------------------------------------------------------------------------
(* The runner implements MigrationHistory.                                 *)

(* The mapped variables while a record is STARTED, while one is FAILED,    *)
(* and while every record is APPLIED.                                      *)
MappedRan == \E k \in Unresolved : commits[k] > 0

MappingStarted == \A m \in Migrations : status[m] = "STARTED" =>
  /\ OpenMigration = m /\ OpenMigration # None
  /\ MappedRan <=> commits[m] > 0
  /\ NoFailedRecord

MappingFailed == \A m \in Migrations : status[m] = "FAILED" =>
  /\ OpenMigration = m
  /\ ~ MappedRan
  /\ ~ NoFailedRecord

MappingQuiet == (\A k \in Migrations : status[k] \in {"NONE", "APPLIED"}) =>
  /\ OpenMigration = None
  /\ ~ MappedRan
  /\ NoFailedRecord

(* How the refinement mapping reads a state that satisfies Inv.           *)
LEMMA Mapping == Inv => MappingStarted /\ MappingFailed /\ MappingQuiet
<1> SUFFICES ASSUME Inv PROVE MappingStarted /\ MappingFailed /\ MappingQuiet
  OBVIOUS
<1>1. ASSUME NEW m \in Unresolved PROVE OpenMigration = m /\ OpenMigration # None /\ Unresolved = {m}
  <2>1. \A k \in Unresolved : k = m
    BY DEF Unresolved, Inv, OneUnresolved
  <2>2. (CHOOSE k \in Migrations : k \in Unresolved) = m
    BY <2>1 DEF Unresolved
  <2>3. QED
    BY <2>1, <2>2, MigrationsAssumption DEF OpenMigration, Unresolved
<1>2. MappingStarted
  <2> SUFFICES ASSUME NEW m \in Migrations, status[m] = "STARTED"
               PROVE  /\ OpenMigration = m /\ OpenMigration # None
                      /\ MappedRan <=> commits[m] > 0
                      /\ NoFailedRecord
    BY DEF MappingStarted
  <2>1. OpenMigration = m /\ OpenMigration # None /\ Unresolved = {m}
    BY <1>1 DEF Unresolved
  <2>2. QED
    BY <2>1 DEF MappedRan, NoFailedRecord, Unresolved
<1>3. MappingFailed
  <2> SUFFICES ASSUME NEW m \in Migrations, status[m] = "FAILED"
               PROVE  OpenMigration = m /\ ~ MappedRan /\ ~ NoFailedRecord
    BY DEF MappingFailed
  <2>1. OpenMigration = m /\ Unresolved = {m}
    BY <1>1 DEF Unresolved
  <2>2. commits[m] = 0
    BY DEF Inv, LedgerTruth
  <2>3. QED
    BY <2>1, <2>2 DEF MappedRan, NoFailedRecord
<1>4. MappingQuiet
  BY DEF MappingQuiet, MappedRan, OpenMigration, Unresolved, NoFailedRecord
<1>5. QED
  BY <1>2, <1>3, <1>4

(* One migration at a time, each once, in dependency order, and nothing    *)
(* after an unresolved one: the runner implements MigrationHistory.        *)
THEOREM Refinement == DeclaresOwnObject => (Spec => ImplementsHistory)
<1> SUFFICES ASSUME DeclaresOwnObject PROVE Spec => ImplementsHistory
  OBVIOUS
<1>1. Init => History!Init
  <2> SUFFICES ASSUME Init PROVE History!Init
    OBVIOUS
  <2>1. \A k \in Migrations : status[k] = "NONE"
    BY DEF Init
  <2>2. Applied = {}
    BY <2>1 DEF Applied
  <2>3. QED
    BY <2>1, <2>2, InitInv, Mapping DEF MappingQuiet, MappedRan, History!Init
<1>2. DeclaresOwnObject /\ Inv /\ Inv' /\ [Next]_vars => [History!Next]_(History!historyVars)
  <2> SUFFICES ASSUME DeclaresOwnObject, Inv, Inv', [Next]_vars
               PROVE  History!Next \/ UNCHANGED History!historyVars
    OBVIOUS
  <2>0. MappingStarted' /\ MappingFailed' /\ MappingQuiet'
    BY Mapping, PTL
  <2>1. CASE UNCHANGED <<status, sha, commits>>
    BY <2>1 DEF History!historyVars, Applied, OpenMigration, Unresolved, NoFailedRecord
  <2>2. ASSUME NEW m \in Migrations, Opens(m) PROVE History!Open(m)
    <3>1. status'[m] = "STARTED" /\ commits'[m] = commits[m] /\ commits[m] = 0
      BY <2>2 DEF Opens, Inv, TypeOK, LedgerTruth
    <3>2. OpenMigration' = m /\ ~ MappedRan' /\ NoFailedRecord'
      BY <2>0, <3>1 DEF MappingStarted
    <3>3. Applied' = Applied /\ m \notin Applied
      BY <2>2 DEF Opens, Applied, Inv, TypeOK
    <3>4. OpenMigration = None /\ ~ MappedRan /\ NoFailedRecord
      BY <2>2, Mapping DEF Opens, MappingQuiet
    <3>5. QED
      BY <2>2, <3>2, <3>3, <3>4 DEF Opens, MappedRan, History!Open
  <2>3. ASSUME NEW m \in Migrations, Runs(m) PROVE History!Run
    <3>1. status[m] = "STARTED" /\ status'[m] = "STARTED" /\ commits[m] = 0 /\ commits'[m] = 1
      BY <2>3 DEF Runs, SaysExecuting, DeclaresOwnObject, ledgerVars, Inv, TypeOK
    <3>2. /\ OpenMigration # None /\ OpenMigration = m /\ OpenMigration' = m
          /\ ~ MappedRan
          /\ MappedRan'
          /\ NoFailedRecord /\ NoFailedRecord'
      BY <2>0, <3>1, Mapping DEF MappingStarted
    <3>3. Applied' = Applied
      BY <2>3 DEF Runs, ledgerVars, Applied
    <3>4. QED
      BY <3>2, <3>3 DEF MappedRan, History!Run
  <2>4. ASSUME NEW m \in Migrations, Closes(m) PROVE History!Close
    <3>1. status[m] = "STARTED" /\ commits[m] = 1 /\ status' = [status EXCEPT ![m] = "APPLIED"]
      BY <2>4 DEF Closes, DeclaresOwnObject
    <3>2. OpenMigration = m /\ MappedRan /\ NoFailedRecord
      BY <3>1, Mapping DEF MappingStarted
    <3>3. \A k \in Migrations \ {m} : status[k] \in {"NONE", "APPLIED"}
      BY <3>1 DEF Inv, TypeOK, Statuses, OneUnresolved
    <3>4. \A k \in Migrations : status'[k] \in {"NONE", "APPLIED"}
      BY <3>1, <3>3 DEF Inv, TypeOK
    <3>5. OpenMigration' = None /\ ~ MappedRan' /\ NoFailedRecord'
      BY <2>0, <3>4 DEF MappingQuiet
    <3>6. Applied' = Applied \cup {m}
      BY <3>1 DEF Applied, Inv, TypeOK
    <3>7. QED
      BY <3>2, <3>5, <3>6 DEF MappedRan, History!Close
  <2>5. ASSUME NEW m \in Migrations, Fails(m) PROVE History!Fail
    <3>1. /\ status[m] = "STARTED" /\ commits[m] = 0 /\ commits'[m] = 0
          /\ status' = [status EXCEPT ![m] = "FAILED"]
      BY <2>5 DEF Fails
    <3>2. OpenMigration = m /\ OpenMigration # None /\ ~ MappedRan /\ NoFailedRecord
      BY <3>1, Mapping DEF MappingStarted
    <3>3. status'[m] = "FAILED"
      BY <3>1 DEF Inv, TypeOK
    <3>4. OpenMigration' = m /\ ~ MappedRan' /\ ~ NoFailedRecord'
      BY <2>0, <3>3 DEF MappingFailed
    <3>5. Applied' = Applied
      BY <3>1 DEF Applied, Inv, TypeOK
    <3>6. QED
      BY <3>2, <3>4, <3>5 DEF MappedRan, History!Fail
  <2>6. QED
    BY <2>1, <2>2, <2>3, <2>4, <2>5, StepKinds DEF History!Next
<1>3. QED
  BY <1>1, <1>2, SpecInv, PTL DEF Spec, ImplementsHistory, History!Spec

-----------------------------------------------------------------------------
(* The planner.                                                            *)

(* A nonempty set of sequence numbers has a smallest one.                  *)
LEMMA SmallestId ==
  ASSUME NEW S \in SUBSET Nat, S # {}
  PROVE  \E m \in S : \A k \in S : m <= k
<1>1. IsWellFoundedOn(OpToRel(<, Nat), Nat)
  BY NatLessThanWellFounded
<1>2. PICK m \in S : \A k \in S : ~ (<<k, m>> \in OpToRel(<, Nat))
  BY <1>1, WFMin
<1>3. \A k \in S : ~ (k < m)
  BY <1>2 DEF OpToRel
<1>4. QED
  BY <1>3

(* Sets of ids are finite, and their cardinalities are numbers.            *)
LEMMA IdsFinite ==
  ASSUME NEW S \in SUBSET Ids
  PROVE  IsFiniteSet(S) /\ Cardinality(S) \in Nat
BY PlannerAssumption, FS_Subset, FS_CardinalityType

(* Dependencies of a complete catalogue are ids, and never the migration   *)
(* itself.                                                                 *)
LEMMA CompleteDepends ==
  ASSUME PlannerTypeOK, NEW m \in Ids
  PROVE  /\ m \notin depends[m]
         /\ Complete => depends[m] \in SUBSET Ids
BY DEF PlannerTypeOK, Catalogues, Complete

(* What is in the list is an id.                                           *)
LEMMA VisitedIds ==
  ASSUME PlannerTypeOK
  PROVE  /\ Visited \in SUBSET Ids
         /\ \A i \in 1..Len(ordered) : ordered[i] \in Visited
<1>1. \A i \in 1..Len(ordered) : ordered[i] \in Ids
  BY DEF PlannerTypeOK
<1>2. QED
  BY <1>1 DEF Visited

(* The invariant holds before the catalogue is checked.                    *)
LEMMA PlannerInitInv == PlannerInit => PlannerInv
<1> SUFFICES ASSUME PlannerInit PROVE PlannerInv
  OBVIOUS
<1>1. PlannerTypeOK
  BY DEF PlannerInit, PlannerTypeOK
<1>2. CheckingInv /\ DrainInv /\ OrderInv /\ OutcomeIsRight /\ PlanIsForwardOrder
  BY DEF PlannerInit, CheckingInv, DrainInv, OrderInv, OutcomeIsRight, PlanIsForwardOrder, Finished, Errors
<1>3. QED
  BY <1>1, <1>2 DEF PlannerInv

(* After the check, the heap holds the migrations without dependencies, or *)
(* an unknown dependency has been reported.                                *)
LEMMA CheckStep ==
  ASSUME PlannerInv, Check
  PROVE  PlannerInv'
<1> USE DEF PlannerInv
<1>0. /\ ordered = <<>> /\ UNCHANGED <<depends, ordered>> /\ Visited = {} /\ Visited' = {}
      /\ outcome = "checking"
  BY DEF Check, CheckingInv, Visited
<1>1. CASE ~ Complete
  <2>1. outcome' = "MigrationDependencyError" /\ UNCHANGED <<indegree, ready>>
    BY <1>1 DEF Check, Complete
  <2>2. PlannerTypeOK'
    BY <1>0, <2>1 DEF PlannerTypeOK, Finished, Errors
  <2>3. ~ Complete'
    BY <1>0, <1>1 DEF Complete
  <2>4. QED
    BY <1>0, <2>1, <2>2, <2>3 DEF CheckingInv, DrainInv, OrderInv, OutcomeIsRight, PlanIsForwardOrder
<1>2. CASE Complete
  <2>1. /\ outcome' = "draining"
        /\ indegree' = [m \in Ids |-> Cardinality(depends[m])]
        /\ ready' = {m \in Ids : depends[m] = {}}
    BY <1>2 DEF Check, Complete
  <2>2. \A m \in Ids : Cardinality(depends[m]) \in Nat
    BY <1>2, CompleteDepends, IdsFinite
  <2>3. PlannerTypeOK'
    BY <1>0, <2>1, <2>2 DEF PlannerTypeOK
  <2>4. DrainInv'
    <3>1. \A m \in Ids : depends[m] \ {} = depends[m] /\ (depends[m] \subseteq {} <=> depends[m] = {})
      OBVIOUS
    <3>2. ready' = {m \in Ids \ {} : depends[m] \subseteq {}}
      BY <2>1, <3>1
    <3>3. QED
      BY <1>0, <2>1, <3>1, <3>2 DEF DrainInv
  <2>5. OrderInv'
    <3>1. Complete' /\ Cardinality(Visited') = Len(ordered')
      BY <1>0, <1>2, FS_EmptySet DEF Complete
    <3>2. Sorted(ordered')
      BY <1>0 DEF Sorted
    <3>3. QED
      BY <1>0, <3>1, <3>2 DEF OrderInv
  <2>6. QED
    BY <2>1, <2>3, <2>4, <2>5 DEF CheckingInv, OutcomeIsRight, PlanIsForwardOrder, Finished, Errors
<1>3. QED
  BY <1>1, <1>2

(* Of a monotone catalogue the smallest ready migration is the smallest    *)
(* one that has not been visited.                                          *)
LEMMA PopsSmallest ==
  ASSUME PlannerInv, outcome = "draining", Monotone, NEW m \in ready, Pops(m), NEW k \in Ids \ Visited
  PROVE  m <= k
<1> DEFINE U == Ids \ Visited
<1>1. U \in SUBSET Nat /\ U # {} /\ m \in Nat
  BY PlannerAssumption DEF PlannerInv, PlannerTypeOK
<1>2. PICK s \in U : \A u \in U : s <= u
  BY <1>1, SmallestId
<1>3. depends[s] \subseteq Visited
  <2> SUFFICES ASSUME NEW d \in depends[s], d \notin Visited PROVE FALSE
    OBVIOUS
  <2>1. d \in U
    BY <1>2, CompleteDepends DEF PlannerInv, OrderInv
  <2>2. d < s
    BY <1>2 DEF Monotone
  <2>3. QED
    BY <1>1, <1>2, <2>1, <2>2
<1>4. s \in ready
  BY <1>2, <1>3 DEF PlannerInv, DrainInv
<1>5. m <= s
  BY <1>4 DEF Pops
<1>6. QED
  BY <1>1, <1>2, <1>5

(* The migration popped is appended: the positions before it stay.         *)
LEMMA VisitAppends ==
  ASSUME PlannerInv, NEW m \in Ids, ordered' = Append(ordered, m)
  PROVE  /\ ordered' \in Seq(Ids)
         /\ Len(ordered) \in Nat
         /\ Len(ordered') = Len(ordered) + 1
         /\ \A i \in 1..Len(ordered) : ordered'[i] = ordered[i]
         /\ ordered'[Len(ordered) + 1] = m
         /\ Visited' = Visited \cup {m}
<1>1. ordered \in Seq(Ids)
  BY DEF PlannerInv, PlannerTypeOK
<1>2. /\ ordered' \in Seq(Ids)
      /\ Len(ordered) \in Nat
      /\ Len(ordered') = Len(ordered) + 1
      /\ \A i \in 1..Len(ordered) : ordered'[i] = ordered[i]
      /\ ordered'[Len(ordered) + 1] = m
  BY <1>1
<1>3. 1..Len(ordered') = (1..Len(ordered)) \cup {Len(ordered) + 1}
  BY <1>2
<1>4. Visited' = {ordered'[i] : i \in 1..Len(ordered')}
  BY DEF Visited
<1>5. QED
  BY <1>2, <1>3, <1>4 DEF Visited

(* One iteration of the loop.                                              *)
LEMMA VisitStep ==
  ASSUME PlannerInv, Visit
  PROVE  PlannerInv'
<1> USE DEF PlannerInv
<1>0. PICK m \in ready :
        /\ Pops(m)
        /\ ordered' = Append(ordered, m)
        /\ indegree' = [k \in Ids |-> IF k \in Children(m) THEN indegree[k] - 1 ELSE indegree[k]]
        /\ ready' = (ready \ {m}) \cup {k \in Children(m) : BecomesReady(k, indegree')}
  BY DEF Visit
<1>1. outcome = "draining" /\ outcome' = "draining" /\ depends' = depends
  BY DEF Visit
<1>2. /\ Complete /\ Visited \in SUBSET Ids /\ m \in Ids \ Visited /\ depends[m] \subseteq Visited
      /\ m \notin depends[m]
  BY <1>0, <1>1, VisitedIds, CompleteDepends DEF OrderInv, DrainInv
<1>3. /\ ordered' \in Seq(Ids)
      /\ Len(ordered) \in Nat
      /\ Len(ordered') = Len(ordered) + 1
      /\ \A i \in 1..Len(ordered) : ordered'[i] = ordered[i]
      /\ ordered'[Len(ordered) + 1] = m
      /\ Visited' = Visited \cup {m}
  BY <1>0, <1>2, VisitAppends
<1>4. \A k \in Visited : m \notin depends[k]
  BY <1>1, <1>2 DEF DrainInv
<1>5. \A k \in Ids \ Visited :
        /\ indegree[k] \in Nat
        /\ IsFiniteSet(depends[k] \ Visited)
        /\ indegree[k] = Cardinality(depends[k] \ Visited)
        /\ depends[k] \ Visited' = (depends[k] \ Visited) \ {m}
  BY <1>1, <1>2, <1>3, CompleteDepends, IdsFinite DEF DrainInv, PlannerTypeOK
<1>6. \A k \in Ids \ Visited : indegree'[k] = Cardinality(depends[k] \ Visited')
  <2> SUFFICES ASSUME NEW k \in Ids \ Visited
               PROVE  indegree'[k] = Cardinality(depends[k] \ Visited')
    OBVIOUS
  <2>1. Cardinality((depends[k] \ Visited) \ {m}) =
          IF m \in depends[k] \ Visited THEN indegree[k] - 1 ELSE indegree[k]
    BY <1>5, FS_RemoveElement
  <2>2. m \in depends[k] \ Visited <=> k \in Children(m)
    BY <1>2 DEF Children
  <2>3. QED
    BY <1>0, <1>5, <2>1, <2>2
<1>7. \A k \in Ids : indegree'[k] \in Nat
  <2> SUFFICES ASSUME NEW k \in Ids PROVE indegree'[k] \in Nat
    OBVIOUS
  <2>1. CASE k \in Visited
    BY <1>0, <1>4, <2>1 DEF Children, PlannerTypeOK
  <2>2. CASE k \notin Visited
    <3>1. depends[k] \ Visited' \in SUBSET Ids
      BY <1>2, CompleteDepends
    <3>2. QED
      BY <1>6, <2>2, <3>1, IdsFinite
  <2>3. QED
    BY <2>1, <2>2
<1>8. ready' = {k \in Ids \ Visited' : depends[k] \subseteq Visited'}
  <2>1. ready = {k \in Ids \ Visited : depends[k] \subseteq Visited}
    BY <1>1 DEF DrainInv
  <2>2. \A k \in Children(m) : k \in Ids \ Visited'
    BY <1>2, <1>3, <1>4 DEF Children
  <2>3. \A k \in Children(m) : indegree'[k] = 0 <=> depends[k] \subseteq Visited'
    <3> SUFFICES ASSUME NEW k \in Children(m)
                 PROVE  indegree'[k] = 0 <=> depends[k] \subseteq Visited'
      OBVIOUS
    <3>1. k \in Ids \ Visited
      BY <1>3, <2>2
    <3>2. depends[k] \ Visited' \in SUBSET Ids
      BY <1>2, <3>1, CompleteDepends
    <3>3. Cardinality(depends[k] \ Visited') = 0 <=> depends[k] \ Visited' = {}
      BY <3>2, IdsFinite, FS_EmptySet
    <3>4. QED
      BY <1>6, <3>1, <3>3
  <2>4. ready' = (ready \ {m}) \cup {k \in Children(m) : depends[k] \subseteq Visited'}
    BY <1>0, <2>3 DEF BecomesReady
  <2>5. \A k \in Ids \ Visited' : depends[k] \subseteq Visited' =>
          depends[k] \subseteq Visited \/ k \in Children(m)
    BY <1>3 DEF Children
  <2>6. QED
    BY <1>3, <2>1, <2>2, <2>4, <2>5
<1>9. PlannerTypeOK'
  <2>1. indegree' \in [Ids -> Nat]
    BY <1>0, <1>7
  <2>2. ready' \subseteq Ids
    BY <1>8
  <2>3. QED
    BY <1>1, <1>3, <2>1, <2>2 DEF PlannerTypeOK
<1>10. DrainInv'
  <2>1. \A k \in Visited' : depends[k] \subseteq Visited'
    BY <1>1, <1>2, <1>3 DEF DrainInv
  <2>2. \A i, j \in 1..Len(ordered') : i < j =>
          ordered'[i] # ordered'[j] /\ ordered'[j] \notin depends[ordered'[i]]
    <3> SUFFICES ASSUME NEW i \in 1..Len(ordered'), NEW j \in 1..Len(ordered'), i < j
                 PROVE  ordered'[i] # ordered'[j] /\ ordered'[j] \notin depends[ordered'[i]]
      OBVIOUS
    <3>1. i \in 1..Len(ordered) /\ ordered'[i] = ordered[i] /\ ordered[i] \in Visited
      BY <1>3, VisitedIds
    <3>2. CASE j = Len(ordered) + 1
      BY <1>2, <1>3, <1>4, <3>1, <3>2
    <3>3. CASE j # Len(ordered) + 1
      <4>1. j \in 1..Len(ordered)
        BY <1>3, <3>3
      <4>2. QED
        BY <1>1, <1>3, <3>1, <4>1 DEF DrainInv
    <3>4. QED
      BY <3>2, <3>3
  <2>3. QED
    BY <1>1, <1>3, <1>6, <1>8, <2>1, <2>2 DEF DrainInv
<1>11. OrderInv'
  <2>1. Complete'
    BY <1>1, <1>2 DEF Complete
  <2>2. Cardinality(Visited') = Len(ordered')
    <3>1. IsFiniteSet(Visited) /\ Cardinality(Visited) = Len(ordered)
      BY <1>1, <1>2, IdsFinite DEF OrderInv
    <3>2. Cardinality(Visited \cup {m}) = Cardinality(Visited) + 1
      BY <1>2, <3>1, FS_AddElement
    <3>3. QED
      BY <1>3, <3>1, <3>2
  <2>3. \A S \in SUBSET Visited' : S # {} => \E k \in S : depends[k] \cap S = {}
    <3> SUFFICES ASSUME NEW S \in SUBSET Visited', S # {}
                 PROVE  \E k \in S : depends[k] \cap S = {}
      OBVIOUS
    <3>1. CASE S \subseteq {m}
      BY <1>2, <3>1
    <3>2. CASE ~ S \subseteq {m}
      <4>1. S \ {m} \in SUBSET Visited /\ S \ {m} # {}
        BY <1>3, <3>2
      <4>2. PICK k \in S \ {m} : depends[k] \cap (S \ {m}) = {}
        BY <1>1, <4>1 DEF OrderInv
      <4>3. m \notin depends[k]
        BY <1>4, <4>1, <4>2
      <4>4. QED
        BY <4>2, <4>3
    <3>3. QED
      BY <3>1, <3>2
  <2>4. ASSUME Monotone
        PROVE  Sorted(ordered') /\ \A k \in Visited', u \in Ids \ Visited' : k < u
    <3>1. \A k \in Visited, u \in Ids \ Visited : k < u
      BY <1>1, <2>4 DEF OrderInv
    <3>2. \A u \in Ids \ Visited : m <= u
      BY <1>0, <1>1, <2>4, PopsSmallest
    <3>3. \A u \in Ids : u \in Nat
      BY PlannerAssumption
    <3>4. \A u \in Ids \ Visited' : u \in Ids \ Visited /\ u # m
      BY <1>3
    <3>5. \A u \in Ids \ Visited' : m < u
      BY <1>2, <3>2, <3>3, <3>4
    <3>6. Sorted(ordered')
      <4> SUFFICES ASSUME NEW i \in 1..Len(ordered'), NEW j \in 1..Len(ordered'), i < j
                   PROVE  ordered'[i] <= ordered'[j]
        BY DEF Sorted
      <4>1. i \in 1..Len(ordered) /\ ordered'[i] = ordered[i] /\ ordered[i] \in Visited
        BY <1>3, VisitedIds
      <4>2. CASE j = Len(ordered) + 1
        <5>1. ordered[i] < m
          BY <1>2, <3>1, <4>1
        <5>2. QED
          BY <1>2, <1>3, <3>3, <4>1, <4>2, <5>1
      <4>3. CASE j # Len(ordered) + 1
        <5>1. j \in 1..Len(ordered)
          BY <1>3, <4>3
        <5>2. Sorted(ordered)
          BY <1>1, <2>4 DEF OrderInv
        <5>3. QED
          BY <1>3, <4>1, <5>1, <5>2 DEF Sorted
      <4>4. QED
        BY <4>2, <4>3
    <3>7. QED
      BY <1>3, <3>1, <3>4, <3>5, <3>6
  <2>5. Monotone' <=> Monotone
    BY <1>1 DEF Monotone
  <2>6. QED
    BY <1>1, <2>1, <2>2, <2>3, <2>4, <2>5 DEF OrderInv
<1>12. QED
  BY <1>1, <1>9, <1>10, <1>11 DEF CheckingInv, OutcomeIsRight, PlanIsForwardOrder, Finished, Errors

(* The queue is empty: what is left, if anything, is in cycles.            *)
LEMMA ConcludeStep ==
  ASSUME PlannerInv, Conclude
  PROVE  PlannerInv'
<1> USE DEF PlannerInv
<1>0. /\ outcome = "draining" /\ ready = {} /\ UNCHANGED <<depends, indegree, ready, ordered>>
      /\ outcome' = IF Len(ordered) # Cardinality(Ids) THEN "MigrationCycleError"
                    ELSE IF ~ Sorted(ordered) THEN "MigrationOrderError"
                    ELSE "planned"
  BY DEF Conclude, QueueEmpty
<1>1. Complete /\ Complete'
  BY <1>0 DEF OrderInv, Complete
<1>2. /\ Visited \in SUBSET Ids /\ Visited' = Visited
      /\ Cardinality(Visited) = Len(ordered)
      /\ IsFiniteSet(Ids)
  <2>1. Visited' = Visited
    BY <1>0 DEF Visited
  <2>2. Cardinality(Visited) = Len(ordered)
    BY <1>0 DEF OrderInv
  <2>3. QED
    BY <2>1, <2>2, VisitedIds, PlannerAssumption
<1>3. Len(ordered) = Cardinality(Ids) <=> Visited = Ids
  BY <1>2, FS_Subset
<1>4. Visited # Ids => Cyclic
  <2> SUFFICES ASSUME Visited # Ids PROVE Cyclic
    OBVIOUS
  <2> DEFINE S == Ids \ Visited
  <2>1. S \in SUBSET Ids /\ S # {}
    BY <1>2
  <2>2. \A m \in S : depends[m] \cap S # {}
    <3> SUFFICES ASSUME NEW m \in S PROVE depends[m] \cap S # {}
      OBVIOUS
    <3>1. ~ depends[m] \subseteq Visited
      BY <1>0 DEF DrainInv
    <3>2. depends[m] \subseteq Ids
      BY <1>1, CompleteDepends
    <3>3. QED
      BY <3>1, <3>2
  <2>3. QED
    BY <2>1, <2>2 DEF Cyclic
<1>5. Visited = Ids => ~ Cyclic
  BY <1>0 DEF OrderInv, Cyclic
<1>6. Monotone => Visited = Ids
  <2> SUFFICES ASSUME Monotone, Visited # Ids PROVE FALSE
    OBVIOUS
  <2>1. PICK S \in SUBSET Ids : S # {} /\ \A m \in S : depends[m] \cap S # {}
    BY <1>4 DEF Cyclic
  <2>2. S \in SUBSET Nat
    BY PlannerAssumption
  <2>3. PICK s \in S : \A k \in S : s <= k
    BY <2>1, <2>2, SmallestId
  <2>4. PICK d \in depends[s] : d \in S
    BY <2>1, <2>3
  <2>5. d < s
    BY <2>3, <2>4 DEF Monotone
  <2>6. QED
    BY <2>2, <2>3, <2>4, <2>5
<1>7. Monotone => Sorted(ordered)
  BY <1>0 DEF OrderInv
<1>8. ordered \in Seq(Ids) /\ Len(ordered) \in Nat /\ \A i \in 1..Len(ordered) : ordered[i] \in Nat
  <2>1. ordered \in Seq(Ids)
    BY DEF PlannerTypeOK
  <2>2. \A i \in 1..Len(ordered) : ordered[i] \in Ids
    BY <2>1
  <2>3. \A m \in Ids : m \in Nat
    BY PlannerAssumption
  <2>4. Len(ordered) \in Nat
    BY <2>1
  <2>5. QED
    BY <2>1, <2>2, <2>3, <2>4
<1>9. \A i, j \in 1..Len(ordered) : ordered[i] \in depends[ordered[j]] => i < j
  <2> SUFFICES ASSUME NEW i \in 1..Len(ordered), NEW j \in 1..Len(ordered),
                      ordered[i] \in depends[ordered[j]], ~ (i < j)
               PROVE  FALSE
    OBVIOUS
  <2>1. i # j
    <3>1. ordered[j] \in Ids
      BY <1>8
    <3>2. QED
      BY <3>1, CompleteDepends
  <2>2. j < i
    BY <1>8, <2>1
  <2>3. QED
    BY <1>0, <2>2 DEF DrainInv
<1>10. ASSUME Sorted(ordered)
       PROVE  \A i, j \in 1..Len(ordered) : i < j => ordered[i] < ordered[j]
  BY <1>0, <1>8, <1>10 DEF Sorted, DrainInv
<1>11. Visited = Ids /\ Sorted(ordered) => Monotone
  <2> SUFFICES ASSUME Visited = Ids, Sorted(ordered), NEW m \in Ids, NEW d \in depends[m]
               PROVE  d < m
    BY DEF Monotone
  <2>1. d \in Visited /\ m \in Visited
    BY <1>1 DEF Complete
  <2>2. PICK i \in 1..Len(ordered) : ordered[i] = d
    BY <2>1 DEF Visited
  <2>3. PICK j \in 1..Len(ordered) : ordered[j] = m
    BY <2>1 DEF Visited
  <2>4. i < j
    BY <1>9, <2>2, <2>3
  <2>5. QED
    BY <1>10, <2>2, <2>3, <2>4
<1>12. PlannerTypeOK'
  BY <1>0 DEF PlannerTypeOK, Finished, Errors
<1>13. (Cyclic' <=> Cyclic) /\ (Monotone' <=> Monotone)
  BY <1>0 DEF Cyclic, Monotone
<1>14. OutcomeIsRight'
  BY <1>0, <1>1, <1>3, <1>4, <1>5, <1>6, <1>7, <1>11, <1>13 DEF OutcomeIsRight
<1>15. PlanIsForwardOrder'
  <2>1. outcome' = "planned" => Visited = Ids /\ Len(ordered) = Cardinality(Ids) /\ Sorted(ordered)
    BY <1>0, <1>3
  <2>2. QED
    BY <1>0, <1>2, <1>9, <1>10, <2>1 DEF PlanIsForwardOrder
<1>16. outcome' \notin {"checking", "draining"}
  BY <1>0
<1>17. QED
  BY <1>12, <1>14, <1>15, <1>16 DEF CheckingInv, DrainInv, OrderInv

(* The planner keeps its invariant for every catalogue.                    *)
THEOREM PlannerInvHolds == PlannerSpec => []PlannerInv
<1>1. PlannerInv /\ UNCHANGED plannerVars => PlannerInv'
  <2> SUFFICES ASSUME PlannerInv, UNCHANGED plannerVars PROVE PlannerInv'
    OBVIOUS
  <2> USE DEF plannerVars, PlannerInv
  <2>1. PlannerTypeOK' /\ CheckingInv'
    BY DEF PlannerTypeOK, CheckingInv
  <2>2. /\ Complete' <=> Complete
        /\ Cyclic' <=> Cyclic
        /\ Monotone' <=> Monotone
        /\ Visited' = Visited
        /\ Sorted(ordered)' <=> Sorted(ordered)
    BY DEF Complete, Cyclic, Monotone, Visited, Sorted
  <2>3. DrainInv' /\ OrderInv'
    BY <2>2 DEF DrainInv, OrderInv
  <2>4. OutcomeIsRight'
    BY <2>2 DEF OutcomeIsRight
  <2>5. PlanIsForwardOrder'
    BY <2>2 DEF PlanIsForwardOrder
  <2>6. QED
    BY <2>1, <2>3, <2>4, <2>5
<1>2. PlannerInv /\ [PlannerNext]_plannerVars => PlannerInv'
  BY <1>1, CheckStep, VisitStep, ConcludeStep DEF PlannerNext
<1>3. QED
  BY PlannerInitInv, <1>2, PTL DEF PlannerSpec

(* A plan is accepted exactly when it should be, for every catalogue.      *)
THEOREM RightOutcome == PlannerSpec => []OutcomeIsRight
<1>1. PlannerInv => OutcomeIsRight
  BY DEF PlannerInv
<1>2. QED
  BY PlannerInvHolds, <1>1, PTL

(* An accepted plan lists every migration once, after its dependencies and *)
(* by sequence number, for every catalogue.                                *)
THEOREM ForwardOrder == PlannerSpec => []PlanIsForwardOrder
<1>1. PlannerInv => PlanIsForwardOrder
  BY DEF PlannerInv
<1>2. QED
  BY PlannerInvHolds, <1>1, PTL
=============================================================================
