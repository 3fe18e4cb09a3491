--------------------------- MODULE RuntimeCommands ---------------------------
(***************************************************************************)
(* The runtime command services of the NNGLA registry                      *)
(* (registries/nngla/spatial_fabric/bundle17n): RuntimeCommandDispatcher,  *)
(* its MemoryCommandReceiptStore and RuntimeBulkExecutor, shared by the    *)
(* threads of one process (the Callers); each has an executor of its own,  *)
(* with or without a transaction factory, over the one dispatcher.         *)
(*                                                                         *)
(* A command is its idempotency key, i.e. the triple (runtime_mode,        *)
(* command_code, idempotency_key), its semantic fingerprint, and whether   *)
(* authorize() and validate_command() let it pass for its principal: they  *)
(* read nothing but the command and configuration files.  A receipt stands *)
(* for the one handler run it was written for.  The receipt store takes    *)
(* its lock for one replay() or one store(), not between them.             *)
(*                                                                         *)
(* A handler takes effect as a whole or, if it raises, not at all.  The    *)
(* handlers a process registers are of one kind.  Those of bundle19a, the  *)
(* only ones there are, commit a transaction of their own, so that no      *)
(* other one is open when they return; the bulk executor is written for    *)
(* handlers that join the transaction it was given.                        *)
(***************************************************************************)
EXTENDS Integers, Sequences, FiniteSets

CONSTANTS
  Callers,             \* threads that execute commands
  Keys,                \* idempotency keys
  Fingerprints,        \* semantic fingerprints
  Commands,            \* the commands that may be executed
  Batches,             \* tuples of commands given to the bulk executor
  NoRecord,            \* "no receipt is stored under this key"
  Transacting,         \* callers whose bulk executor was given a transaction_factory
  MaximumItems,        \* maximum_items of the bulk policies
  MaxCalls,            \* bound: calls of each caller
  MaxRestarts          \* bound: restarts of the process

Policies == {"SINGLE", "BULK_ATOMIC", "BULK_ITEM_ATOMIC", "BULK_PREVIEW"}

ASSUME CommandsAssumption ==
  /\ Commands \subseteq [key : Keys, fingerprint : Fingerprints, admissible : BOOLEAN]
  /\ Batches \subseteq Seq(Commands)
  /\ Transacting \subseteq Callers
  /\ MaximumItems \in Nat
  /\ MaxCalls \in Nat /\ MaxRestarts \in Nat

(* A handler run, and the receipt written for it.                          *)
Runs == [caller : Callers, call : Nat, item : Nat, command : Commands]

ASSUME NoRecordAssumption == NoRecord \notin Runs

VARIABLES
  handlers,     \* the domain handlers that are registered: "none", "joining" the
                \* transaction of a bulk call, or "committing" their own
  records,      \* the receipt store: key -> receipt
  runs,         \* history: handler runs since the process started
  effects,      \* effects of handler runs that are durable
  uncommitted,  \* effects in the open transaction of a bulk call
  calls,        \* calls made by each caller
  pc,           \* where the call is in dispatcher.execute
  policy,       \* "SINGLE", or the policy of the bulk call
  batch, item,  \* its commands and the one being executed
  receipts,     \* receipts collected, with the command each answers
  failures,     \* failure_count
  outcome,      \* how the last call ended
  restarts

callVars   == <<calls, policy, batch>>
effectVars == <<runs, effects, uncommitted>>
resultVars == <<item, receipts, failures, outcome>>
vars == <<handlers, records, effectVars, callVars, resultVars, pc, restarts>>

InCall == {"dispatching", "handling", "storing"}

TypeOK ==
  /\ handlers \in {"none", "joining", "committing"}
  /\ records \in [Keys -> Runs \cup {NoRecord}]
  /\ runs \subseteq Runs /\ effects \subseteq Runs
  /\ uncommitted \in [Callers -> SUBSET Runs]
  /\ calls \in [Callers -> Nat]
  /\ pc \in [Callers -> InCall \cup {"idle", "returning"}]
  /\ policy \in [Callers -> Policies]
  /\ batch \in [Callers -> Batches \cup {<<>>}]
  /\ item \in [Callers -> Nat \ {0}]
  /\ \A t \in Callers : pc[t] \in InCall => item[t] \in 1..Len(batch[t])
  /\ receipts \in [Callers -> Seq([asked : Commands, run : Runs, replayed : BOOLEAN])]
  /\ failures \in [Callers -> Nat]
  /\ outcome \in [Callers -> {"none", "returned", "raised"}]
  /\ restarts \in Nat

Init ==
  /\ handlers = "none"
  /\ records = [k \in Keys |-> NoRecord]
  /\ runs = {} /\ effects = {}
  /\ uncommitted = [t \in Callers |-> {}]
  /\ calls = [t \in Callers |-> 0]
  /\ pc = [t \in Callers |-> "idle"]
  /\ policy = [t \in Callers |-> "SINGLE"]
  /\ batch = [t \in Callers |-> <<>>]
  /\ item = [t \in Callers |-> 1]
  /\ receipts = [t \in Callers |-> <<>>]
  /\ failures = [t \in Callers |-> 0]
  /\ outcome = [t \in Callers |-> "none"]
  /\ restarts = 0

Current(t) == batch[t][item[t]]

(* Mutated form: every call opens a transaction, also a single one.        *)
AlwaysTransactional(t) == TRUE

Transactional(t) == t \in Transacting /\ policy[t] # "SINGLE"

-----------------------------------------------------------------------------
(* How a call goes on after an item, and how it ends.                      *)

Position(b, i) == IF i <= Len(b) THEN "dispatching" ELSE "returning"

NextItem(t) ==
  /\ item' = [item EXCEPT ![t] = @ + 1]
  /\ pc' = [pc EXCEPT ![t] = Position(batch[t], item[t] + 1)]

(* dispatcher.execute returns a receipt.                                   *)
Answer(t, run, replayed) ==
  /\ receipts' = [receipts EXCEPT ![t] =
       Append(@, [asked |-> Current(t), run |-> run, replayed |-> replayed])]
  /\ NextItem(t)
  /\ UNCHANGED <<failures, outcome, uncommitted>>

(* An exception leaves the call; the transaction of a bulk call, if any,   *)
(* is rolled back.                                                         *)
Raise(t) ==
  /\ pc' = [pc EXCEPT ![t] = "idle"]
  /\ outcome' = [outcome EXCEPT ![t] = "raised"]
  /\ receipts' = [receipts EXCEPT ![t] = <<>>]
  /\ uncommitted' = [uncommitted EXCEPT ![t] = {}]
  /\ UNCHANGED <<item, failures>>

(* Mutated form: every bulk policy continues after a failed item.          *)
AnyBulkContinues(t) == policy[t] # "SINGLE"

ContinuesAfterFailure(t) == policy[t] = "BULK_ITEM_ATOMIC"

(* dispatcher.execute raises.                                              *)
Fail(t) ==
  IF ContinuesAfterFailure(t)
    THEN /\ failures' = [failures EXCEPT ![t] = @ + 1]
         /\ NextItem(t)
         /\ UNCHANGED <<receipts, outcome, uncommitted>>
    ELSE Raise(t)

-----------------------------------------------------------------------------
RegisterHandlers ==
  /\ handlers = "none"
  /\ handlers' \in {"joining", "committing"}
  /\ UNCHANGED <<records, effectVars, callVars, resultVars, pc, restarts>>

(* dispatcher.execute, or RuntimeBulkExecutor.execute up to its loop.      *)
Refused(t, p, b) == Len(b) > MaximumItems \/ (p = "BULK_ATOMIC" /\ t \notin Transacting)

Begin(t, p, b) ==
  /\ pc[t] = "idle"
  /\ calls[t] < MaxCalls
  /\ p = "SINGLE" => Len(b) = 1
  /\ calls' = [calls EXCEPT ![t] = @ + 1]
  /\ policy' = [policy EXCEPT ![t] = p]
  /\ batch' = [batch EXCEPT ![t] = b]
  /\ item' = [item EXCEPT ![t] = 1]
  /\ receipts' = [receipts EXCEPT ![t] = <<>>]
  /\ failures' = [failures EXCEPT ![t] = 0]
  /\ LET stops == p # "SINGLE" /\ (Refused(t, p, b) \/ p = "BULK_PREVIEW") IN
       /\ pc' = [pc EXCEPT ![t] = IF stops THEN "idle" ELSE Position(b, 1)]
       /\ outcome' = [outcome EXCEPT ![t] =
            IF ~ stops THEN "none" ELSE IF Refused(t, p, b) THEN "raised" ELSE "returned"]
  /\ UNCHANGED <<handlers, records, effectVars, restarts>>

SameCommand(c, run) == run.command.fingerprint = c.fingerprint

(* authorize, validate_command and receipt_store.replay.                   *)
Dispatch(t) ==
  /\ pc[t] = "dispatching"
  /\ LET c == Current(t)
         found == records[c.key] IN
       \/ /\ ~ c.admissible
          /\ Fail(t)
       \/ /\ c.admissible
          /\ found # NoRecord
          /\ IF SameCommand(c, found) THEN Answer(t, found, TRUE) ELSE Fail(t)
       \/ /\ c.admissible
          /\ found = NoRecord
          /\ pc' = [pc EXCEPT ![t] = "handling"]
          /\ UNCHANGED <<resultVars, uncommitted>>
  /\ UNCHANGED <<handlers, records, runs, effects, callVars, restarts>>

ThisRun(t) == [caller |-> t, call |-> calls[t], item |-> item[t], command |-> Current(t)]

(* The handler runs; in a bulk call that has a transaction its effect is   *)
(* part of it if the handler joins that.                                   *)
HandlerRuns(t) ==
  /\ pc[t] = "handling"
  /\ handlers # "none"
  /\ runs' = runs \cup {ThisRun(t)}
  /\ IF handlers = "joining" /\ Transactional(t)
       THEN /\ uncommitted' = [uncommitted EXCEPT ![t] = @ \cup {ThisRun(t)}]
            /\ UNCHANGED effects
       ELSE /\ effects' = effects \cup {ThisRun(t)}
            /\ UNCHANGED uncommitted
  /\ pc' = [pc EXCEPT ![t] = "storing"]
  /\ UNCHANGED <<handlers, records, callVars, resultVars, restarts>>

(* No handler is registered, or the handler raises and leaves no effect.   *)
HandlerFails(t) ==
  /\ pc[t] = "handling"
  /\ Fail(t)
  /\ UNCHANGED <<handlers, records, runs, effects, callVars, restarts>>

(* Mutated forms: the last receipt wins; a receipt is kept for single      *)
(* calls only.                                                             *)
StoreOverwrites(t) ==
  /\ pc[t] = "storing"
  /\ records' = [records EXCEPT ![Current(t).key] = ThisRun(t)]
  /\ Answer(t, ThisRun(t), FALSE)
  /\ UNCHANGED <<handlers, runs, effects, callVars, restarts>>

StoreSinglesOnly(t) ==
  /\ pc[t] = "storing"
  /\ records' = IF policy[t] = "SINGLE" /\ records[Current(t).key] = NoRecord
                  THEN [records EXCEPT ![Current(t).key] = ThisRun(t)] ELSE records
  /\ Answer(t, ThisRun(t), FALSE)
  /\ UNCHANGED <<handlers, runs, effects, callVars, restarts>>

(* receipt_store.store: the first receipt of a key stays.  A caller that   *)
(* comes second with the same command returns the receipt of its own run.  *)
Store(t) ==
  /\ pc[t] = "storing"
  /\ LET k == Current(t).key IN
       \/ /\ records[k] = NoRecord
          /\ records' = [records EXCEPT ![k] = ThisRun(t)]
          /\ Answer(t, ThisRun(t), FALSE)
       \/ /\ records[k] # NoRecord
          /\ IF SameCommand(Current(t), records[k])
               THEN Answer(t, ThisRun(t), FALSE)
               ELSE Fail(t)
          /\ UNCHANGED records
  /\ UNCHANGED <<handlers, runs, effects, callVars, restarts>>

(* Mutated form: the transaction is abandoned.                             *)
ReturnWithoutCommit(t) ==
  /\ pc[t] = "returning"
  /\ uncommitted' = [uncommitted EXCEPT ![t] = {}]
  /\ pc' = [pc EXCEPT ![t] = "idle"]
  /\ outcome' = [outcome EXCEPT ![t] = "returned"]
  /\ UNCHANGED <<handlers, records, runs, effects, callVars, item, receipts, failures, restarts>>

(* The transaction of a bulk call commits and the call returns.            *)
Return(t) ==
  /\ pc[t] = "returning"
  /\ effects' = effects \cup uncommitted[t]
  /\ uncommitted' = [uncommitted EXCEPT ![t] = {}]
  /\ pc' = [pc EXCEPT ![t] = "idle"]
  /\ outcome' = [outcome EXCEPT ![t] = "returned"]
  /\ UNCHANGED <<handlers, records, runs, callVars, item, receipts, failures, restarts>>

CommitFails(t) ==
  /\ pc[t] = "returning"
  /\ Transactional(t)
  /\ Raise(t)
  /\ UNCHANGED <<handlers, records, runs, effects, callVars, restarts>>

(* The process stops and starts again: the receipts were in its memory.    *)
Restart ==
  /\ restarts < MaxRestarts
  /\ restarts' = restarts + 1
  /\ handlers' = "none"
  /\ records' = [k \in Keys |-> NoRecord]
  /\ runs' = {}
  /\ uncommitted' = [t \in Callers |-> {}]
  /\ pc' = [t \in Callers |-> "idle"]
  /\ receipts' = [t \in Callers |-> <<>>]
  /\ outcome' = [t \in Callers |-> "none"]
  /\ UNCHANGED <<effects, callVars, item, failures>>

Next ==
  \/ RegisterHandlers
  \/ \E t \in Callers :
       \/ \E p \in Policies, b \in Batches : Begin(t, p, b)
       \/ Dispatch(t) \/ HandlerRuns(t) \/ HandlerFails(t) \/ Store(t)
       \/ Return(t) \/ CommitFails(t)
  \/ Restart

Spec == Init /\ [][Next]_vars

-----------------------------------------------------------------------------
(* The receipt stored under a key is the first one until the process ends: *)
(* what a late or failing caller does never replaces it. (idempotency.py)  *)
FirstReceiptStays ==
  [][\A k \in Keys : records[k] # NoRecord /\ restarts' = restarts => records'[k] = records[k]]_vars

(* A caller only ever gets a receipt for exactly what it asked for, be it  *)
(* replayed or its own, whatever is executed under the same key meanwhile. *)
ReceiptAnswersCommand ==
  \A t \in Callers : \A i \in 1..Len(receipts[t]) :
    LET r == receipts[t][i] IN
      /\ r.run.command.key = r.asked.key
      /\ r.run.command.fingerprint = r.asked.fingerprint
      /\ ~ r.replayed => r.run.caller = t

(* A caller that repeats a command, alone or in a bulk call, after a       *)
(* success or after an error, never makes its handler succeed twice: only  *)
(* concurrent callers can.  So a key has at most one run for each caller.  *)
CallerRunsOnce ==
  \A r, s \in runs : r.caller = s.caller /\ r.command.key = s.command.key => r = s

OwnEffects(t) == {r \in effects : r.caller = t /\ r.call = calls[t]}
OwnRuns(t)    == {r \in runs : r.caller = t /\ r.call = calls[t]}

(* The runs that the receipts of a call report as its own.                 *)
NewRuns(t) == {receipts[t][i].run : i \in {j \in 1..Len(receipts[t]) : ~ receipts[t][j].replayed}}

(* A bulk call under BULK_ATOMIC that returns has exactly the effects it   *)
(* reports.  One that raises, or has not ended, has none if the handlers   *)
(* join its transaction.  If they commit, as those of bundle19a do, the    *)
(* effects of all items that were executed are durable, and stay so.       *)
AtomicEffects(t) ==
  policy[t] = "BULK_ATOMIC" =>
    /\ pc[t] # "idle" \/ outcome[t] = "raised" =>
         OwnEffects(t) = IF handlers = "committing" THEN OwnRuns(t) ELSE {}
    /\ outcome[t] = "returned" =>
         /\ failures[t] = 0 /\ Len(receipts[t]) = Len(batch[t])
         /\ OwnEffects(t) = NewRuns(t)

BulkAtomicEffects == \A t \in Callers : AtomicEffects(t)

(* A bulk call that continues after failures accounts for every item, and  *)
(* what it reports as done is durable.                                     *)
AccountsForItems(t) ==
  policy[t] = "BULK_ITEM_ATOMIC" /\ outcome[t] = "returned" =>
    /\ Len(receipts[t]) + failures[t] = Len(batch[t])
    /\ NewRuns(t) \subseteq effects

BulkAccountsForItems == \A t \in Callers : AccountsForItems(t)

(* A receipt that can be replayed, by whomever, reports an effect that is  *)
(* durable: true of the receipts of callers whose bulk calls have no       *)
(* transactions, also when others roll theirs back, and of all receipts if *)
(* the handlers commit.                                                    *)
ReceiptMeansEffect ==
  \A k \in Keys :
    records[k] # NoRecord /\ (records[k].caller \notin Transacting \/ handlers = "committing") =>
      records[k] \in effects

-----------------------------------------------------------------------------
(* The inductive invariant: a run is under way to its receipt, or a        *)
(* receipt of its key is in the store and stops every later run.           *)

RunsLeadToReceipts ==
  \A r \in runs :
    \/ records[r.command.key] # NoRecord
    \/ pc[r.caller] = "storing" /\ Current(r.caller).key = r.command.key

HandlingIsFirst ==
  \A t \in Callers : pc[t] = "handling" =>
    \A r \in runs : r.caller = t => r.command.key # Current(t).key

StoringHasRun ==
  \A t \in Callers : pc[t] = "storing" =>
    /\ ThisRun(t) \in runs
    /\ t \notin Transacting => ThisRun(t) \in effects

RecordsMatchKeys ==
  \A k \in Keys : records[k] # NoRecord => records[k].command.key = k /\ records[k] \in runs

(* What was run was run by handlers that are registered; those that commit *)
(* leave nothing to a transaction.                                         *)
RunsOfHandlers ==
  /\ handlers = "none" => runs = {}
  /\ handlers = "committing" => runs \subseteq effects

(* Why one stored receipt is enough: every run that succeeds is followed   *)
(* by the receipt of its key before its caller can ask again.              *)
ReceiptInv ==
  /\ TypeOK
  /\ ReceiptAnswersCommand
  /\ CallerRunsOnce
  /\ ReceiptMeansEffect
  /\ RunsLeadToReceipts
  /\ HandlingIsFirst
  /\ StoringHasRun
  /\ RecordsMatchKeys
  /\ RunsOfHandlers

(* Effects, durable or not, belong to the calls that were made, and those  *)
(* of the current one to runs since the process started; an open           *)
(* transaction and a result exclude each other.                            *)
EffectsHaveCalls(t) ==
  /\ \A r \in effects : r.caller = t => r.call <= calls[t]
  /\ \A r \in uncommitted[t] : r \in runs /\ r.caller = t /\ r.call = calls[t]
  /\ pc[t] # "idle" \/ outcome[t] # "none" => OwnEffects(t) \subseteq runs
  /\ IF pc[t] = "idle" THEN uncommitted[t] = {} ELSE outcome[t] = "none"

(* The runs a call has made, with and without a receipt.                   *)
Performed(t) == NewRuns(t) \cup (IF pc[t] = "storing" THEN {ThisRun(t)} ELSE {})

(* A bulk call has accounted for the items before the current one; what it *)
(* performed is durable or in its transaction, and under BULK_ATOMIC it    *)
(* has no other effects.                                                   *)
BulkProgress(t) ==
  pc[t] # "idle" /\ policy[t] # "SINGLE" =>
    /\ Len(receipts[t]) + failures[t] + 1 = item[t]
    /\ pc[t] = "returning" => item[t] = Len(batch[t]) + 1
    /\ Performed(t) \subseteq effects \cup uncommitted[t]
    /\ policy[t] = "BULK_ATOMIC" =>
         /\ t \in Transacting /\ failures[t] = 0
         /\ OwnEffects(t) \cup uncommitted[t] = Performed(t)

BulkState(t) ==
  EffectsHaveCalls(t) /\ BulkProgress(t) /\ AtomicEffects(t) /\ AccountsForItems(t)

Inv == ReceiptInv /\ \A t \in Callers : BulkState(t)

-----------------------------------------------------------------------------
(* To their callers the services are a journal of what was performed: the    *)
(* steps of dispatcher, store and bulk executor, however they interleave,  *)
(* fail or are cut off by a restart, add up to the steps of one.           *)
Journal == INSTANCE CommandJournal WITH
  journal   <- records,
  performed <- runs,
  durable   <- effects,
  open      <- uncommitted,
  told      <- [t \in Callers |-> {receipts[t][i].run : i \in 1..Len(receipts[t])}]

ImplementsJournal == Journal!Spec

-----------------------------------------------------------------------------
(* What the idempotency policy says and the code does not do,              *)
(* "RETURN_EXISTING_RECEIPT": all callers of a key get the same receipt.   *)
OneReceiptPerKey ==
  \A t, u \in Callers : \A i \in 1..Len(receipts[t]), j \in 1..Len(receipts[u]) :
    receipts[t][i].asked.key = receipts[u][j].asked.key => receipts[t][i].run = receipts[u][j].run
=============================================================================
