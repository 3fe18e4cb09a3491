# Formal models of the Nexa provider platform

This directory holds TLA+ specifications of the parts of the platform whose
correctness depends on interleaving, failure and order, the TLC
configurations that check them on small instances, and proofs, checked by TLAPS,
that their main properties hold for every instance. Paths below are relative to
the repository root. The modules need the TLA+ community modules
and, for the proofs, TLAPS.

    tlc -config MCMigrationControl.cfg MCMigrationControl
    tlapm MigrationProofs.tla

`PROJECT.json` lists the components, the runs, the code lines each definition
models, the hazards and the findings in machine-readable form.

## 1. The system

The repository is one Python code base (registries, database tooling, an
authentication authority, a provider runtime), one JavaScript front end, and
a large body of geographic data. What keeps state, and what can go wrong there:

| Component | State | Operations | Hard part | Correct means |
|---|---|---|---|---|
| Migration runner, recovery, rollback (`database/migration_control`) | ledger table, schema, advisory lock | apply, reconcile, rollback | several invocations, crash between script and ledger, abandoned backends, operators outside the lock | ledger true, nothing twice, dependency order |
| Migration planner (`planning.py`) | indegrees, heap, order | create_plan | cycles, diamonds, order conflicts | accepts exactly the right catalogues |
| Runtime commands (`bundle17n`) | receipt store, transactions | execute, bulk execute | check-then-act around a lock, failing items, retries, memory lost at restart | a caller's command runs once, receipts are honest |
| Development authentication (`backend/auth`) | attempts, sessions | login, start, verify, session, logout | requests in parallel on copies of one record | answer limit, one session per right answer, attempts consumed |
| NNGLA coordinate migration (`registries/nngla/migration_ready`) | coordinates, receipts, advisory lock, approved fingerprint | preview, execute, resume, for record windows and legacy batches | connections lost in a COMMIT, approvals that go stale, ranges typed around an incomplete window | a prefix is migrated, one receipt each, always resumable |
| Credential bundles and deliveries (`m006_10_02_credential_bundle_storage_delivery.sql`, `credential_bundle_persistence`) | rows guarded by triggers and partial unique indexes | insert, update, read | READ COMMITTED transactions whose triggers do not see each other | readers find one current record, deliveries were ready, terminal rows stay |
| Offline name sync (`registries/name_sync`, `name_cache`) | catalogue cache, receipts | snapshot, change set | compare-then-apply without a lock, failure between change and receipt | the cache is a published catalogue, one receipt per request |
| Authentication experience (`frontend/src/app/auth`) with router and shell | session context, storage, page, hash | sign in, sign out, restore, navigate, reload | answers out of order or never | no protected page without a session, signed out is gone |
| Reference allocators (`nngla_reserve_*` SQL functions) | series, reservations, a sequence | reserve | concurrent callers, retries, rollbacks, lookup before the lock, formatted width | no gap, no number twice, one number for a key |
| Other SQL lifecycles (`database/migrations/m006_10_02_*`) | rows guarded by triggers | issue, verify, decide | as for bundles | terminal states stay |
| Presentation coordinator, foreground recovery (`frontend/src/map`) | generations of asynchronous renders | render, cancel, recover | late results | no stale frame |
| Service worker, snapshot loader (`frontend/sw.js`, `map/nngla`) | caches | install, activate, fetch | two generations alive at once | no mixture of generations |
| Generated-authority execution (`bundle19a`), candidate lifecycle | receipts, authority rows | execute, adopt | replay check outside the transaction | once per command |
| Provider runtime (`shared`) | files, events, audit | save, append | read-modify-write of whole files | no lost update |
| Database read runtime (`infrastructure/database/runtime`) | pool, materialised reads | acquire, read | exhaustion, staleness | connections returned |

How they interact: the migration runner builds the schema in which the registries,
the SQL lifecycles and the durable allocators live; the planner hands it a trusted
forward order. Runtime command handlers call the registries' services, which call
the allocators. The coordinate migration fills the schema, and looks for nothing but
what it holds. The front end talks to the authentication authority over HTTP
and reads published snapshots, through the service worker, from the read API.

The first nine rows are modelled here. Section 7 is the plan for the rest and says what
is left out for good.

## 2. Modules

| Module | Role |
|---|---|
| `MigrationHistory` | abstract: what migration control promises, whoever runs it |
| `MigrationControl` | apply, recovery and rollback over one database |
| `MigrationPlanner` | `create_plan` |
| `MigrationProofs` | theorems about both, including that the runner implements `MigrationHistory` |
| `CommandJournal` | abstract: a journal of what callers performed, and what they are told of it |
| `RuntimeCommands`, `RuntimeCommandsProofs` | dispatcher, receipt store, bulk executor, and theorems, including that they implement `CommandJournal` |
| `LimitedChallenge` | abstract: a challenge that is answered and closed in single steps |
| `DevelopmentAuthentication`, `DevelopmentAuthenticationProofs` | the authority's service and store, and theorems, including that they implement `LimitedChallenge` |
| `WindowedMigration` | abstract: one migration in order, window after window |
| `RecordExecution`, `RecordExecutionProofs` | previews and executions of the coordinate migration, and theorems, including that they implement `WindowedMigration` |
| `ReadCommitted` | rows, locks, visibility and unique indexes of PostgreSQL at READ COMMITTED; the base of the next two |
| `CredentialDelivery`, `CredentialDeliveryProofs` | triggers, indexes and reads of credential bundles, secrets and deliveries, and theorems |
| `OfficialRegister` | abstract: the register that reservations of official numbers build |
| `NumberSeries`, `NumberSeriesProofs` | the SQL functions that reserve official numbers, and theorems, including that they implement `OfficialRegister` |
| `CatalogueReplica` | abstract: what the readers of an offline catalogue may rely on |
| `NameSync`, `NameSyncProofs` | snapshots, change sets and receipts of the offline name catalogue, and theorems, including that they implement `CatalogueReplica` |
| `TabSession` | abstract: how a browser tab comes to its session and loses it |
| `AuthenticationExperience`, `AuthenticationExperienceProofs` | the sign-in of the browser application over its router and shell, and theorems, including that it implements `TabSession` |
| `MC*` | the instances TLC checks, one `.cfg` for each run |

Definitions called a "mutated form" in a comment are plausible mistakes in the code
a definition models: with one of them in its place the property named in
`PROJECT.json` is violated, which shows that the property depends on that code.

### MigrationControl

`status` and `sha` are the columns of `platform.schema_migration`; `effects` is
which scripts are in the schema; `commits` counts, for checking only, how often each has
committed; `lockOwner` is the session-level advisory lock. Each controller is one
`apply`: `pc` is the statement of `service.apply` it is at, `checkout` its trusted
catalogue. Every statement that reads or writes the database is an action of its own
(`TryLock`, `Verify`, `SelectPending`, `InsertStarted`, `SqlCommits`/`SqlFails`,
`MarkApplied`/`MarkFailed`, `Finish`), so other sessions act in between. A client
may die at any of them. If it dies while its script runs, its backend stays behind
(`orphaned`) with the lock and finishes the script. `Assess` and `Reconcile` are
`recovery.py`, `PlanRollback` and `RollbackStep` are `rollback.py`; neither takes the
lock. All 36 scripts of the manifest are one transaction each, so a script commits
or leaves nothing.

A migration is its sequence number. That the planner guarantees dependencies with smaller
numbers is an assumption here (`MigrationsAssumption`) and a theorem of
`MigrationProofs` (`RightOutcome`). A migration that declares no object of its own
(not `OwnsObject`; sequences 30 and 36) can be reconciled as APPLIED although its script has not
committed: `LedgerTruth` says what APPLIED means of the others, and `CommitsUnderLock` lets the script of
such a record still commit.

### MigrationPlanner

One step is one iteration of the loop of `create_plan`; `ready` is the heap, as a
set of which the least member is popped. The catalogue is any assignment of
dependencies, also to ids that do not exist; self-dependencies and repetitions are
refused earlier, by the manifest loader and `contracts.py`.

### RuntimeCommands

Threads (`Callers`) share one dispatcher. A call is a single command or a batch under a
bulk policy; it goes through `Dispatch` (authorise, validate, `replay()`),
`HandlerRuns` or `HandlerFails`, and `Store` (`store()`) for each item, which are
separate steps because the store's lock is held inside each of its methods only.
`effects` is what handlers have done durably, `uncommitted` what they have done inside
the transaction of a bulk call. `RegisterHandlers` picks the kind of handlers a process has: "joining" ones leave their
statements to the transaction the bulk executor was given, which is what `bulk.py:27` asks for; "committing" ones open and
commit their own, as the only handler that is registered does (`bundle19a/handlers.py`, `persistence.py:171`). `Restart` loses the receipt store, which is memory.
`CommandJournal` says what callers are promised of it: while the process lives a caller performs a key at most
once and the first entry of a key stays, a caller is told of its own performances and of entries only, and what is
performed in one transaction becomes durable together or never.

### DevelopmentAuthentication

The authority is a `ThreadingHTTPServer`, so a request is a process. `attempt`,
`count` and `session` are the store's dictionaries; each call of the store, made under its
lock, is an action. `verify_developer` is `ReadAttempt` (copy and expiry check),
`CountAndVerify`, `CreateSession`, `ConsumeAttempt`. Credentials are
left out; a response is right, wrong or unreadable (`Answers`: the comparison raises after the count), tokens to fresh values, time to expiry at any moment.

### RecordExecution

A session (`Sessions`) is a connection of the CLI: an unlocked preview (`ReadTarget`, then
`PreviewRecords` or `PreviewSpatial`), or an execution: `Acquire` takes the advisory lock,
`ConfirmRecords` or `ConfirmSpatial` builds the preview again and compares it with the
approved one, and the loop goes on with `ReuseRecord`, `OpenRecord`, `CommitRecord` for record windows, `SkipBatch`,
`OpenBatch`, `CommitBatch` for legacy batches. `rows` are the migrated ordinals, `receipts` those of
plan version 3 with the bounds of their window, `legacy` the INSERTED items of version 2.
`First` to `Window` are `record_progress.py`; they are pure operators of the rows and receipts read.

`LoseConnection` leaves the session at the server with its lock and its transaction; a COMMIT that
was sent may then still take effect (`CommitRecord`, `CommitBatch`) or not (`DiscardSession`).
`Interrupt` is any error, a refused confirmation or an operator who gives up. A fingerprint
is the record of what it hashes, so equality of previews is equality of fingerprints.

### ReadCommitted

`row` is the committed version of each row, `draft` the uncommitted one, `writer` the transaction that
holds the row's lock. `Visible`, `Lockable`, `Write`, `FreeKey`, `Publish` and `Forget` are what a statement
sees, when it waits for a lock, what an update and an insertion into a unique index do, COMMIT, and the end of
a transaction. Waiting is a guard that is not true yet; a statement that fails is a rollback. PostgreSQL is not
part of the repository, so this module is external; every connection of the repository uses this level, since
none of them sets another.

### CredentialDelivery

Rows are assignments, bundles, deliveries and archive secrets, with the columns that triggers and indexes
read. An insertion is two steps, `BeginInsert` (the BEFORE trigger has read other rows, without locks) and
`FinishInsert` (the table and its unique indexes, where it may have waited): other transactions act between
them. An `Update` locks the row first, so its trigger sees the latest version. `ReadyBundles`,
`IssuedDeliveries` and `ActiveSecrets` are the reads of `postgresql.py`, which raise if they find two. No
service writes these tables yet, so any statement may come from any transaction in any order.

### NumberSeries

A call of a `nngla_reserve_*` function is `LockSeries` (SELECT FOR UPDATE), then `FindReservation` (the key was
used: its answer) or `Reserve` (format, insert, advance the series); an address takes `nextval` in between
(`TakeAddress`), which no rollback undoes. Geometry and feature identifiers look the key up before they lock
(`LookUp`). `told` is what the calls of an open transaction have returned, `known` what committed ones were
told. A number is an integer and `Padded` what lpad makes of it. Callers choose the reservation id and
may repeat a key under another one.

### NameSync

`worker[w].pc` is where a thread is in `apply_snapshot` or `apply_change_set`: `LookupFindsNone` or
`LookupFindsReceipt` (`_existing`), `ReadState` (`get_state` and the refusals), `CountEntries` (the search that
counts), `ApplySnapshot`, `ApplyChanges` or `RefuseChanges` (the cache), `SaveReceipt`. The cache and the
receipts take a lock in each of their methods and the service takes none, so each of these is a step.
`CallFails` is an injected part that raises, before the application or after it. The changes of a change set
are the difference of two published catalogues. `torn` marks that a change set was applied after the
checkpoint it had been compared with was gone. `CatalogueReplica` says what is left of that for a reader: content that
goes from one published catalogue to another, or says that it does not, and one answer for each request.

### AuthenticationExperience

What a handler does between two awaits is one action, and the part after an await is one of `Ends(c)` for the
call `c`, with what the handler kept across it: the route for `onSubmit`, the token for `restore` and `logout`.
`page` is what the outlet shows. The shell writes it when the route changes, the experience when the `hashchange`
event is dispatched, so `events` counts those to come. `Render` follows `render` in its order: NoveGeo for any session, then
the workspace of the session, and a session without one is cleared. A reload forgets everything but the storage. The
authority may answer a call in any order with the others, refuse it or never be reached; that each right answer to a challenge
earns one session is `DevelopmentAuthentication`.
`TabSession` is what the user sees of it: a session comes to the tab by a login or as the answer to a reload that
asked for the one kept, and one that was signed out of does not come back.

## 3. Runs

| Run | Instance | Shows |
|---|---|---|
| `migration` | 2 controllers, 3 migrations, 3 checkouts (current, older, one changed script), development environment, fairness | `LedgerTruth`, `DependenciesApplied`, `RunnerAgreesWithLedger`, `CommitsUnderLock`, `RollbackDependentsFirst`, `LockReleased`, and that every behaviour is a `MigrationHistory` |
| `migration_plan` | every catalogue of 4 migrations, about 2^16 | the right outcome, the right order, termination |
| `commands` | 2 callers, one with bulk transactions, 2 calls each, 2 keys, 4 commands, 4 batches, handlers of both kinds, 1 restart | once per caller, receipts match what was asked and report durable effects, every behaviour is a `CommandJournal`; which effects a BULK_ATOMIC call leaves with handlers of each kind, and accounting of the others |
| `record_execution` | 2 sessions, 3 coordinates, windows of 2 or 3, batches of 2, every explicit start, fairness | the migrated ordinals are a prefix, one receipt each, progress always assessable, every behaviour is a `WindowedMigration`, what was approved is what is committed, confirmed runs end |
| `authentication` | 3 requests on 1 attempt, limit 3, 1 guest, fairness | limit on answers, sessions earned, every behaviour is a `LimitedChallenge`, and a spent attempt is removed in the end, also when answers cannot be compared |
| `credential_delivery` | 2 transactions of up to 2 rows, 1 developer, 2 bundles, 2 deliveries, 1 secret | readers find at most one current record, deliveries belong to bundles that were ready, terminal rows stay |
| `number_series` | 2 transactions, 4 series (one of each kind), 2 keys, 3 reservations | numbers without a gap, none written twice, and every behaviour is an `OfficialRegister` |
| `name_sync` | 2 threads, 2 requests, 3 checkpoints, 3 names, search limit 2 | count and identities always right, every behaviour is one of `CatalogueReplica`, one receipt for all callers, refusals only after an overlap or where the search missed a name the change set leaves alone, and always where it was cut there |
| `authentication_experience` | 1 tab, 2 calls in flight, 2 sessions, 1 attempt, 1 reload, fairness | nothing protected without a session, every behaviour is a `TabSession`, what is stored is what is restored, restorations end |

Where the runs check an `Inv`, it is the type invariant together with the inductive parts that section 4 names.

Runs expected to fail, each for one property that a comment, a message or a policy file
of the repository states:

| Run | Property | What TLC finds |
|---|---|---|
| `migration_reconcile` | `AppliedScriptsCommitted` | a migration that only replaces existing objects (sequences 30 and 36) is reconciled as APPLIED although its script never committed |
| `commands_replay` | `OneReceiptPerKey` | two concurrent callers of one command both run its handler |
| `credential_delivery_race` | `TerminalHasNoIssued` | a delivery is inserted while its bundle is being retired: both commit, and a terminal bundle has an ISSUED delivery |

### What else the models show of the code

Behaviours a reader should know that the passing properties are worded around, because they do happen:

* A FAILED migration is never retried: `assess` answers RETRY, but `apply` refuses to run while the record is
  there, the executor refuses a migration that has a record, and no operation changes it.
* A rolled-back migration stays APPLIED in the ledger, and `apply` will not run it again.
* With the handler that is registered today a BULK_ATOMIC call that fails at a later item keeps the effects of the earlier ones:
  the handler commits by itself (`persistence.py:175`), and the transaction the call rolls back is empty.
* A command rejected because another one got its key meanwhile has been executed; receipts of a bulk call that
  is rolled back stay, whether its effects did or not, and a repetition replays them.
* A change set of names applied after its checkpoint was replaced leaves a cache that claims a checkpoint it
  does not hold, until the next snapshot. One that was applied but whose receipt failed is answered "checkpoint mismatch"
  when it is repeated. A cache of more names than the search returns refuses a
  change set that leaves one of the names alone that were left out, also when it is repeated; one that changes or removes all of those is taken.
* A response that is not ASCII makes `hmac.compare_digest` raise after it was counted (`enigma.py:139`): the request ends
  without an HTTP answer, and if it was the last one allowed its attempt stays, with the limit used up, until one more request removes it.
* A session of the simulation runtime has no workspace, and a workspace page clears it; on the NoveGeo route it is kept and the
  production feature is shown (`authentication-experience.js:46` comes before the test of the workspace).
  `authentication-experience-source.test.mjs:19` calls this page guarded, but only matches the text of the file.
* An answer that arrives late is rendered for the route it was asked from, over whatever is shown by then (`route` is
  read before the await); a restoration that ends late signs out a user who has signed in meanwhile, or brings the older session back in place
  of the new one. A failed
  logout is swallowed: the session lives on at the authority.
* `lpad` cuts a parcel number of five digits to four, which the unique constraint then refuses: the series is
  stuck. Two concurrent calls for a geometry or feature identifier under one key: the second fails on the unique key, where the other
  functions return the number.

### Bounds, and why they are enough

* Two controllers: the holder of the lock, alive or an abandoned backend, and one that comes
  while it is held; a loser ends at once, so a third adds only permutations. Three migrations: a chain edge, a dependency that skips one (as 23 on 8 in the
  manifest), and something pending behind a failure. Nothing in the model counts, so its
  state space is finite without further bounds.
* Four migrations for the planner contain every shape of a cycle with an entrance, a
  diamond and an order conflict behind a correct prefix.
* Commands: two callers, `MaxCalls` = 2 and `MaxRestarts` = 1 allow a retry after an error,
  after a success and after a restart; `MaximumItems` = 2 allows one failing item before
  or after a good one, two good ones, and a batch that is too long. Both bounds appear in guards
  only; the theorems hold for every value of them.
* Authentication: with a limit of three and three requests the limit is reached and
  passed while a request holds a stale copy. A finished request starts again, so the
  number of requests over time is unbounded. Three unreadable responses in any order with right and wrong ones fit in it.
* Coordinate migration: with three coordinates a window of two has a successor cut at the last
  ordinal; a run that is interrupted after one of its records leaves an incomplete window with
  something missing above it, which explicit ranges of two and three can end below, overlap or pass; a
  batch of two is complete, half there or missing. Two sessions are the holder and one that previews or tries; a
  session that ended stands for the next one, so the number of runs is unbounded.
* Credential delivery: the second transaction is the one a trigger does not see; two bundles, two deliveries and
  transactions of two rows are a current record, its rival, and a delivery together with its bundle. One
  confirmation stands for two that behave alike.
* Number series: the parcel series starts at the width of its format (`Limit` 4, written in base 2 instead of 10), titles and
  geometries near it, addresses count by two; three reservations and two keys allow a key to be
  repeated by the same transaction and another, and a rollback before, between and after. `MaxNumber` bounds
  the numbers of a series.
* Name sync: three checkpoints; the first has more names than a search returns (the limit is 2 for 1000), and
  its change set leaves one name alone, so that a search may leave out this name or one that is changed; the others are not cut.
  The change sets remove a name and hand its identity on, where one count hides a wrong set; the last one leaves no name alone, so that
  a stale change set meets names of another catalogue. A thread calls again and again, so the number of calls is unbounded.
* Authentication experience: two calls overlap in every way; a second session tells a late answer from the current one.
  `MaxSessions`, `MaxAttempts`, `MaxCalls`, `MaxEvents` and `MaxReloads` appear in guards only.
* Symmetry is used for sets whose members the model treats alike, in runs without liveness only.
* `CHECK_DEADLOCK FALSE`, where the system stops: the planner returns; callers have used up their calls;
  every token of the authority has been used; the browser has used up its sessions, attempts and reloads.

### Fairness

`migration` assumes that a running client goes on to its next statement and that an
abandoned backend reaches the end of its script (weak fairness of `ControllerStep` and
`OrphanStep`): both are sequential programs that do not wait for anyone
(`pg_try_advisory_lock` does not block). Nobody has to start an apply, and no script has
to succeed. `migration_plan` assumes that `create_plan`, one function call, runs on.
`record_execution` assumes that a confirmed loop runs on and that PostgreSQL ends the session of a client
that is gone (`RunStep`); nobody has to answer the prompt or start a run, and any run may be interrupted.
`authentication` assumes that a thread which handles a request runs to its end; store methods
hold their lock for a few statements and wait for nothing else.
`authentication_experience` assumes that a request for a session ends some time, with an answer or an error, after which
the rest of `restore` runs; no login has to end, and no event has to be dispatched. The other runs check safety only.

## 4. Proofs

Every theorem holds for any sets of controllers, migrations, callers, keys, requests, and
any bounds. The constants' assumptions are the named `ASSUME`s of each module, which TLC
evaluates on each run.

**Migration control** (`MigrationProofs`). `Inv` is inductive: the session in
possession of the lock (`HolderHasLock`) is the only one at work on the one record that is
STARTED or FAILED, and `SessionInv` says for each `pc` what that record and the script's
commit count are. `LedgerTruth` alone is not inductive: that the script of a STARTED record
has not yet committed when it is about to run is known only through the `pc` of the
session that opened it. From `Inv` follow `LedgerIsTrue`, `AtMostOnce`,
`AtMostOneUnresolved`, `VerificationStaysValid`, `DependenciesFirst` and the action properties
`WriteAhead`, `FinalOutcomes` and `RollbackOrder`. They assume nothing of the objects that migrations
declare: where the inspection of `recovery.py` is not conclusive, the invariant allows the script
of a record that was reconciled too early to commit still (`SaysExecuting`, `CurrentRecord`), once, in the session that holds the lock.

`Refinement` shows that the initial state and each step map to
`MigrationHistory`: `InsertStarted` to `Open`, a commit to `Run`, `MarkApplied` and
`Reconcile` to `Close`, `MarkFailed` to `Fail`, everything else to a stutter. It alone
assumes `DeclaresOwnObject`, that each migration declares an object no other one does, which
the manifest does not satisfy for sequences 30 and 36: `migration_reconcile` shows that a history
is then not what happens. `RollbackOrder` needs only that a
rollback takes the last migration of its plan that is left, and that dependencies have smaller numbers.

**Planner** (`MigrationProofs`). `PlannerInv` adds to the exactness of indegrees and
heap (`DrainInv`) that no set of visited migrations contains a cycle and that, when every
dependency has a smaller number, the visited migrations are a sorted initial segment
(`OrderInv`). When the heap is empty and migrations remain, each of them depends on another that
remains: the catalogue is cyclic. Otherwise the order is complete, and it is sorted exactly
if the catalogue is monotone. Hence `RightOutcome` and `ForwardOrder`.

**Runtime commands** (`RuntimeCommandsProofs`). `RunsLeadToReceipts`: each run of a handler has
a receipt under its key in the store, or its caller is about to store one. With
`HandlingIsFirst` a caller that has passed `replay()` has never run the key,
which gives `CallerRunsOnceHolds`: no retry makes a handler run twice for one
caller. (That two callers can both run it is the finding of `commands_replay`.)
`ReceiptAnswersCommandHolds`, `ReceiptMeansEffectHolds` and `FirstReceiptStaysHolds` follow
from the same part of the invariant (`ReceiptInv`). `BulkState` is the other part: a bulk call that is at an item has
a receipt or a failure for each item before it, and its new runs are durable or in its open transaction; in a BULK_ATOMIC call
these are all the effects it has (`BulkProgress`). `RunsOfHandlers` says that handlers that commit leave no run without its durable
effect, and that nothing has run before there are handlers, so that it does not matter which kind is registered. That what a call has in its transaction
is of no other call (`EffectsHaveCalls`) is needed because a rollback forgets the transaction as a whole. Hence
`BulkAtomicEffectsHolds` and `BulkAccountsForItemsHolds`.
`Refinement` maps the stored receipts, the runs, the durable and the uncommitted effects, and the runs in each call's results
to `CommandJournal`. A handler run is `Perform`, for which `HandlingIsFirst` gives that its caller has not performed the key;
the first receipt of a key is `Enter`; a replay, or the receipt of a caller that comes second, is `Tell`; the end of a call is
`Commit` or, if it raises, `Drop`; a restart is `Forget`. That a replayed receipt is of a run that was made is part of
`RecordsMatchKeys` for this, and that the next call begins without a transaction is in `EffectsHaveCalls`.

**Authentication** (`DevelopmentAuthenticationProofs`). `AnswersCounted`: answers compared
never exceed answers counted, and sessions of an attempt plus requests about to make one
equal its right answers; the tokens of an attempt's sessions are an initial segment, so a new one
is free. `IssuedOnce`: an attempt is bound only by the request that created it. Hence
`AnswersBoundedHolds`, `AnsweredIsConsumedHolds` and `ConsumedTakesNoAnswerHolds`. `Refinement` maps `BindChallenge` to
`Open`, `CountAndVerify` to `Answer` while the count is within the limit, whether the response can be compared or not, `CreateSession` to `Issue`, and the first `ConsumeAttempt` of an
attempt to `Close`; everything else, also a second removal, is a stutter. It needs `RemovedForCause`: a request removes an attempt
on what it read of it before, so that there was a session, a used-up limit or an expiry must still be true when it does. The
answers of the challenge are the count up to the limit, not the comparisons: a response at which the comparison raises is counted only.

**Coordinate migration** (`RecordExecutionProofs`). `Inv` says that whoever runs holds the lock
(`LockInv`), that the rows are a prefix, that each row has one receipt of one plan
(`ReceiptsInv`), and of each run (`RunOK`) that everything before its next ordinal is there, that what
remains of the approved insertions is exactly what is missing of its window, and that no window
other than its own is incomplete. The last conjunct is what makes `AlwaysAssessable` inductive: a
receipt that is about to be written must not open a second incomplete window. `SelectedWindow`
shows it of every window `select_record_window` returns, by cases on resumption, an
explicit range below an incomplete window, and a range that begins at or below the first missing ordinal. From `Inv` follow
`OrderHolds`, `ReceiptsHold`, `AssessableHolds`, `ApprovedHolds` and the action property `IncompleteFirst`.
They assume `RecordExecutionAssumption`: there is a coordinate, and counts and batch sizes are between 1 and `N`.
`Refinement` maps `First(rows) - 1` to the number of migrated ordinals and the active batch to the open window. A committed record
is `Record`, a committed batch `Batch`, or a stutter if it finds everything there, and no other step writes. The open window after a commit is found
with `CompleteUpTo`: since the rows are a prefix, a window that begins in it is complete exactly if it ends in it.

**Credential delivery** (`CredentialDeliveryProofs`). `KeysStayUnique` says that whatever commits next no two rows of one
key are in a partial unique index: uncommitted rows have to be part of it, since `FreeKey` lets an insertion pass that
conflicts with a row its own transaction has moved on. `DraftsFollowRows`: a row that has a draft is not in a final
state, and the draft keeps its evidence. `SeenDeliveriesWereReady` is the reason why the unlocked trigger does no harm to
`DeliveriesWereReadyHolds`: what a transaction saw of a bundle's readiness can change, but that it was ready cannot. The same
argument does not hold of "not terminal", which is the finding.

**Number series** (`NumberSeriesProofs`). `SeriesIsHeld`: who is past the lock in a call, or has an uncommitted
reservation, holds the series row, so what it read of `next` is current. `VersionsApart` is the unique constraints over
committed and uncommitted rows, `AddressesWereGiven` bounds every identifier by the sequence, `ToldIsVisible` ties
answers to rows. `GaplessSeriesHolds` is proved of the database and of every transaction's view, because a commit makes the view the
database (`AgreeGapless`, `NextIsGapless`). `Refinement` maps the committed rows to `OfficialRegister`: a commit is `Enter`,
every other step a stutter. The numbers a commit adds are the difference of two progressions without a gap, which is the
later part of the longer one (`LaterNumbers`).

**Name sync** (`NameSyncProofs`). `CacheIsConsistent` is checked by the cache itself at each application;
`ChangesStartHere` and `CompletedWasApplied` follow a call from its comparison to its receipt. The theorem
`RefusedWhenRacedOrCutHolds` needs that the difference of two catalogues, applied to the first, is the second, and
that the count depends only on the names that are left alone (`CountOfUntouched`), with `PartIsSmaller` for a search that was cut.
`Refinement` maps the entries to the content of `CatalogueReplica`, `torn` to `mixed`, `applied` to `taken`, and
the saved receipts, by status, to the requests answered. A snapshot is `Replace`; a change set is `Advance`
if the checkpoint it was compared with is still there and nothing is torn (`ChangeReachesEnd`), and otherwise `Mix`; a first
receipt is `Complete` or `Reject`; every other step is a stutter. `CacheIsCatalogue` makes the induction: an application that is
not torn starts from the catalogue of the change set's first checkpoint. `Mix` needs a cache that was synchronised
before, which is why `ChangesStartHere` also says that the checkpoint is not 0 when a change set is about to be applied.

**Authentication experience** (`AuthenticationExperienceProofs`). `SignedOutIsGone` is not inductive: a restoration or a
sign-out in flight holds a session of its own. `OnlyIssued` bounds the identities in the tab, so that the answer to a login
brings a new one, and `RestoredOnce` says that the session a restoration asks for is not in use, not in any other call that restores or
signs out, and not one that was signed out of: a sign-out can only be about the session in use. `StorageFollows` needs that nothing but
the end of its restoration takes the last call away that a stored session waits for. Hence `InvHolds`,
`GuardedRoutesHolds` and `SignedOutIsGoneHolds`. They assume of the bounds that there is room for a call.
`Refinement` maps the restorations in flight to the set of sessions that `TabSession` has `asked` for: the answer to a login
is `SignIn`, whether the session has a page where it was asked for or is cleared at once; a reload is `Reopen`; the end of a
restoration, well or badly, is `Resume`; the end of a sign-out is `SignOut`; whatever else clears the context is `Forget`. `Resume` takes its session
out of the set because of `RestoredOnce`. `TabNeverBack` shows that this is all a user needs: in every `TabSession`
a session that was signed out of is not in the tab, not kept and not asked for.

## 5. Only model-checked

* Liveness (`LockReleased`, `PlannerReturns`, `AnsweredIsRemoved`, `RunEnds`, `RestoreEnds`): fairness and ENABLED
  are beyond the prover.
  Every invariant and every other action property of the passing runs is a theorem.
* That the three runs expected to fail do fail is shown by TLC's counterexamples.

## 6. What the models leave out

* Migration control: SQL text, SHA-256, parsing of the manifest; a checkout does not change
  while an invocation runs; read-only commands; `RollbackPlan` takes the applied migrations
  of the whole catalogue, where the operator's checkout orders those it knows; the one-time `legacy_cleanup.py`. One operator
  reconciles at a time.
* Commands: what `authorize` and `validate_command` decide is a property of the command, since both
  read only the command and static files. A handler that raises leaves no effect (`dict(handler(...))` at
  `dispatcher.py:37` could raise after one that returned no mapping; the registered one returns a mapping), and a handler is
  atomic: two threads do not interleave their statements on one connection, where `commit()` and `rollback()` would take in each
  other's work. The handlers of a process are of one kind. The
  SQL function `nngla_claim_runtime_command` has no caller in the repository.
* Coordinate migration: feature, geometry and crosswalk of a coordinate are one member of `rows`, since
  every transaction writes or skips all of them; rows written by others that contradict the source (CONFLICT)
  do not occur. `execute_spatial_batch` (`bundle17e/execution.py`), an older way to execute one
  fixed batch, writes coordinates in a transaction of its own without taking the lock; no session of the model is that writer. `ensure_source_contract` writes the same constant rows each time. Batches have one size, a
  profile has several; a batch size above `N` is the one batch of size `N`. Items that say REUSED in
  legacy receipts, an attempt to lock that fails, and the answer MIGRATION_COMPLETE change nothing that is modelled.
* Authentication: credentials, the construction of challenges, CORS and HTTP framing. The
  memory of the process is lost with it, and with it every token, so a restart is a
  new behaviour.
* Credential delivery: key columns that triggers keep as inserted; an insertion leaves the state to its default although the
  schema takes any; times are set or not set; CONSUMED, EXPIRED and REVOKED are one state.
* Number series: series exist already (the allocators of geometries and features are made by their first use); the unique
  `parcel_candidate_id` and `candidate_id` (a violation is a rollback, which may happen anyway); `nngla_reserve_name_id`, which catches
  up with registered names; the in-memory allocators of `bundle17g` to `17m`.
* Name sync: what a search finds for a user, item results and texts; inconsistent snapshots, which
  the models refuse; a cache without a lock or persisted receipts, which the repository does not have.
* Authentication experience: the account pages, which `account-enrollment-experience.js` writes to the same outlet on hashes of their own
  (`#/account`); `developerDiagnostics`, focus, markup and the map runtimes; `back()` of the history is a change of
  the hash; partials are loaded before it is installed.

## 7. Plan

Next, in this order; each module with a type invariant, an inductive invariant written to be
proved, and a run for each question:

1. The other `m006_10_02_*` lifecycles on `ReadCommitted`: e-mail challenges, admin review, enrolment notifications.
2. `PresentationCoordinator`, `ServiceWorker`, `SnapshotLoader`: asynchronous renders and caches.
3. `GeneratedAuthority` (`bundle19a`), candidate lifecycle and adoption on `NumberSeries`, `LocalRepository`, `ConnectionPool`.

The map covers the code whose behaviour depends on state, order and failure. Most of the implementation's lines are
something else: configuration parsing, generation of documents and roadmaps, geometry, markup, read-only SQL and
data tables, which a model of control would not say anything about. A larger share of lines is not a goal; a model of the
components above is.

Left out for good: configuration and logging, spatial queries, geography authoring, map
rendering and geometry, read-only persistence adapters and the roadmap tools. They are pure functions
of their input, real-valued geometry, or pure I/O.
